---- MODULE Spec2Model ----
(***************************************************************************)
(* SyntheticPairEngine: the arbitrage engines (ArbitrageEngine,            *)
(* TriangularArbitrageEngine; src/src/arbitrage_engine.cpp) and the        *)
(* mispricing detectors (src/src/mispricing_detector.cpp) as state         *)
(* machines.                                                               *)
(*                                                                         *)
(* Numbers.  The code computes in double; the model computes in integers:  *)
(*   - ratios (thresholds, correlation, impact, slippage) in parts per     *)
(*     million, so 0.001 is 1000 and 0.6 is 600000;                        *)
(*   - prices in tenths (Price(100) is 100.0, Price(101) + 5 is 101.5);    *)
(*   - money and sizes in whole units, so size * price is in tenths;       *)
(*   - a comparison a < r * b of the code, r a ratio, is a * PPM < r * b.  *)
(* Time.  A Timestamp is a number of clock ticks since the clock's epoch   *)
(* (a default-constructed time_point is 0); TicksPerMinute ticks make a    *)
(* minute.                                                                 *)
(***************************************************************************)
EXTENDS Integers, Sequences, FiniteSets, TLC

VARIABLES
    now,                    \* the reading of high_resolution_clock
    engine,                 \* which IArbitrageEngine was constructed
    params_,                \* ArbitrageParameters of the engine
    latest_snapshot_,       \* ArbitrageEngine::latest_snapshot_
    active_opportunities_,  \* the engine's active list
    opportunity_callback_,  \* TRUE when the std::function holds a target
    update_callback_,       \* TRUE when the std::function holds a target
    created,                \* number of opportunities put on the active list
    fired,                  \* the callbacks the handler just run invoked
    arbitrage_opp,          \* the opportunities the handler just run built
    detector,               \* which IMispricingDetector was constructed
    detection_params_,      \* DetectionParameters of the detector
    price_history_,         \* StatisticalMispricingDetector::price_history_
    volatility_history_,    \* VolatilityArbitrageDetector::volatility_history_
    detected,               \* what detect_opportunities just returned
    detectors_,             \* CompositeMispricingDetector::detectors_
    arrivals,               \* every mid price update_market_data pushed
    pc,                     \* where each thread is in the call it is running
    opportunities_mutex_,   \* the thread holding the detector's mutex, or "free"
    overlap,                \* TRUE when a write overlapped the read in progress
    vol_surface,            \* VolatilitySurface::vol_surface
    funding_rates_,         \* PerpetualSwapPricingModel::funding_rates_
    updates,                \* the update_point and update_funding_rate calls made
    returned,               \* what the call just run returned
    detection_callback_,    \* TRUE when the composite's callback holds a target
    expiry_callback_,       \* TRUE when the composite's callback holds a target
    forwarded               \* the calls the composite just made on its children

engine_vars == <<engine, params_, latest_snapshot_, active_opportunities_,
                 opportunity_callback_, update_callback_, created, fired,
                 arbitrage_opp>>
detector_vars == <<detector, detection_params_, price_history_,
                   volatility_history_, detected, detectors_, arrivals>>
thread_vars == <<pc, opportunities_mutex_, overlap>>
pricing_vars == <<vol_surface, funding_rates_, updates, returned>>
forwarding_vars == <<detection_callback_, expiry_callback_, forwarded>>
vars == <<now, engine_vars, detector_vars, thread_vars, pricing_vars,
          forwarding_vars>>

---------------------------------------------------------------------------
(* Bounds of the model *)

TicksPerMinute == 2     \* resolution of the clock
MaxClockSteps == 1      \* how many times the clock advances in a run
MaxCreated == 1         \* a handler adds to the active list while fewer were put on it
MaxObservations == 20   \* quotes of one instrument a detector is fed in a run
MaxArrivals == 102      \* quotes of one instrument the long feed delivers
MaxChildObservations == 2   \* quotes of one instrument a composite's child is fed
MaxUpdates == 2         \* update_point and update_funding_rate calls in a run
MaxTriangularCreated == 3   \* as MaxCreated, for a TriangularArbitrageEngine run alone

(* Units *)
PPM == 1000 * 1000
PriceScale == 2 * 5
Price(x) == x * PriceScale
MsPerTick == 60000 \div TicksPerMinute
EpochMs(t) == t * MsPerTick
Minutes(n) == n * TicksPerMinute
DurationCastMinutes(d) == d \div TicksPerMinute

\* the clock advances by the time an opportunity has to live
ClockStep == Minutes(5)
MaxTime == 1 + MaxClockSteps * ClockStep

Abs(x) == IF x < 0 THEN -x ELSE x

---------------------------------------------------------------------------
(* Data *)

ArbitrageStatus ==
    {"IDENTIFIED", "VALIDATED", "EXECUTING", "COMPLETED", "FAILED", "EXPIRED"}

ArbitrageParameters ==
    [min_profit_threshold |-> 1000,
     max_risk_per_trade   |-> 20000,
     max_correlation_risk |-> 300000,
     max_market_impact    |-> 5000,
     max_slippage         |-> 1000,
     max_position_size    |-> 1000000]

\* the parameter sets a caller passes to update_parameters in this model
ParameterChoices ==
    {ArbitrageParameters,
     [ArbitrageParameters EXCEPT !.min_profit_threshold = 20000,
                                 !.max_position_size = 10000]}

Quote(bid, ask, bsz, asz) ==
    [bid_price |-> bid, ask_price |-> ask, bid_size |-> bsz, ask_size |-> asz]

\* MarketSnapshot::quotes, a map from instrument to Quote
EmptySnapshot == << >>
DeepSnapshot ==
    [i \in {"BTC-ETH", "BTC-USD", "ETH-USD"} |-> Quote(Price(100), Price(101), 200, 200)]
ThinSnapshot ==
    [i \in {"BTC-USD", "ETH-USD"} |->
        IF i = "BTC-USD" THEN Quote(Price(100), Price(101), 200, 50)
                         ELSE Quote(Price(100), Price(101), 200, 200)]
PairSnapshot ==
    [i \in {"BTC-USD", "ETH-USD"} |-> Quote(Price(100), Price(101), 200, 200)]
Snapshots == {EmptySnapshot, DeepSnapshot, ThinSnapshot}

DetectionParameters ==
    [min_deviation_threshold  |-> 5000,
     min_z_score              |-> 2000000,
     min_confidence_level     |-> 800000,
     min_observation_window   |-> 50,
     max_opportunity_duration |-> Minutes(30)]

MispricingOpportunity ==
    [target_instrument     |-> "",
     component_instruments |-> << >>,
     type                  |-> "STATISTICAL_ARBITRAGE",
     severity              |-> "LOW",
     market_price          |-> 0,
     theoretical_price     |-> 0,
     deviation_percentage  |-> 0,
     z_score               |-> 0,
     confidence_level      |-> 0,
     expected_profit       |-> 0,
     max_loss              |-> 0,
     weights               |-> << >>,
     detection_time        |-> 0,
     expiry_time           |-> 0,
     value_at_risk         |-> 0,
     expected_shortfall    |-> 0,
     sharpe_ratio          |-> 0]

ArbitrageLeg(id, s, sz, price, w) ==
    [instrument_id |-> id, side |-> s, size |-> sz, entry_price |-> price,
     weight |-> w]

ArbitrageOpportunity ==
    [serial             |-> 0,
     opportunity_id     |-> << >>,
     type               |-> "PURE_ARBITRAGE",
     status             |-> "IDENTIFIED",
     mispricing_source  |-> MispricingOpportunity,
     legs               |-> << >>,
     expected_profit    |-> 0,
     max_loss           |-> 0,
     total_cost         |-> 0,
     value_at_risk      |-> 0,
     expected_shortfall |-> 0,
     sharpe_ratio       |-> 0,
     correlation_risk   |-> 0,
     expiry_time        |-> 0,
     slippage_estimate  |-> 0,
     market_impact      |-> 0]

---------------------------------------------------------------------------
(* ArbitrageEngine: construction of an opportunity from a mispricing *)

\* std::uniform_int_distribution<> dis(1000, 9999); the model draws the two
\* ends of the range
RandomLow == 1000
RandomHigh == 9999
RandomDraws == {RandomLow, RandomHigh}

\* "ARB_" << timestamp << "_" << dis(gen); r is the value dis(gen) drew
generate_opportunity_id(t, r) == <<"ARB", EpochMs(t), r>>

RECURSIVE hedge_legs(_, _)
hedge_legs(mispricing, i) ==
    IF i > Len(mispricing.component_instruments) \/ i > Len(mispricing.weights)
    THEN << >>
    ELSE <<ArbitrageLeg(mispricing.component_instruments[i],
                        IF mispricing.weights[i] > 0 THEN "ASK" ELSE "BID",
                        Abs(mispricing.weights[i]) * 100,
                        Price(100),
                        -mispricing.weights[i])>>
         \o hedge_legs(mispricing, i + 1)

\* the legs with the primary leg's side chosen by <= instead of <
optimize_legs_bid_on_equal(mispricing) ==
    <<ArbitrageLeg(mispricing.target_instrument,
                   IF mispricing.market_price <= mispricing.theoretical_price
                   THEN "BID" ELSE "ASK",
                   100,
                   mispricing.market_price,
                   1)>>
    \o hedge_legs(mispricing, 1)

optimize_legs(mispricing) ==
    <<ArbitrageLeg(mispricing.target_instrument,
                   IF mispricing.market_price < mispricing.theoretical_price
                   THEN "BID" ELSE "ASK",
                   100,
                   mispricing.market_price,
                   1)>>
    \o hedge_legs(mispricing, 1)

create_arbitrage_from_mispricing(mispricing, t, r) ==
    [ArbitrageOpportunity EXCEPT
        !.opportunity_id     = generate_opportunity_id(t, r),
        !.type               = "STATISTICAL_ARBITRAGE",
        !.status             = "IDENTIFIED",
        !.mispricing_source  = mispricing,
        !.legs               = optimize_legs(mispricing),
        !.expected_profit    = mispricing.expected_profit,
        !.max_loss           = mispricing.max_loss,
        !.value_at_risk      = mispricing.value_at_risk,
        !.expected_shortfall = mispricing.expected_shortfall,
        !.sharpe_ratio       = mispricing.sharpe_ratio,
        !.expiry_time        = mispricing.expiry_time]

---------------------------------------------------------------------------
(* ArbitrageEngine: the four validation checks *)

validate_liquidity(opportunity, snapshot) ==
    \A k \in DOMAIN opportunity.legs :
        LET leg == opportunity.legs[k] IN
        leg.instrument_id \in DOMAIN snapshot =>
            LET quote == snapshot[leg.instrument_id]
                available_liquidity ==
                    IF leg.side = "BID" THEN quote.ask_size ELSE quote.bid_size
            IN ~(available_liquidity < leg.size)

validate_risk_limits(opportunity, params) ==
    /\ ~(opportunity.expected_profit * PPM
            < params.min_profit_threshold * opportunity.total_cost)
    /\ ~(opportunity.value_at_risk * PPM
            > params.max_risk_per_trade * opportunity.total_cost)
    /\ ~(opportunity.correlation_risk > params.max_correlation_risk)
    /\ ~(opportunity.market_impact > params.max_market_impact)

\* validate_timing asking for more than five whole minutes
validate_timing_over_five(opportunity, t) ==
    /\ ~(t >= opportunity.expiry_time)
    /\ ~(DurationCastMinutes(opportunity.expiry_time - t) <= 5)

\* validate_timing taking an expiry_time left at the epoch for none set
validate_timing_epoch_unset(opportunity, t) ==
    \/ opportunity.expiry_time = 0
    \/ /\ ~(t >= opportunity.expiry_time)
       /\ ~(DurationCastMinutes(opportunity.expiry_time - t) < 5)

validate_timing(opportunity, t) ==
    /\ ~(t >= opportunity.expiry_time)
    /\ ~(DurationCastMinutes(opportunity.expiry_time - t) < 5)

RECURSIVE total_position_value(_)
total_position_value(legs) ==
    IF legs = << >> THEN 0
    ELSE Head(legs).size * Head(legs).entry_price
         + total_position_value(Tail(legs))

validate_execution_feasibility(opportunity, params) ==
    /\ ~(total_position_value(opportunity.legs)
            > Price(params.max_position_size))
    /\ ~(opportunity.slippage_estimate > params.max_slippage)

\* is_valid &= ... : all four checks run, whatever the earlier ones returned
ArbitrageEngine_is_valid(opportunity, snapshot, params, t) ==
    /\ validate_liquidity(opportunity, snapshot)
    /\ validate_risk_limits(opportunity, params)
    /\ validate_timing(opportunity, t)
    /\ validate_execution_feasibility(opportunity, params)

\* the opportunity as validate_opportunity leaves it
ArbitrageEngine_validate_opportunity(opportunity, snapshot, params, t) ==
    IF ArbitrageEngine_is_valid(opportunity, snapshot, params, t)
    THEN [opportunity EXCEPT !.status = "VALIDATED"]
    ELSE opportunity

---------------------------------------------------------------------------
(* TriangularArbitrageEngine *)

\* std::map<std::string, std::vector<InstrumentId>>, in key order
currency_triangles_ ==
    << <<"BTC-ETH-USD",  <<"BTC-USD", "ETH-USD", "BTC-ETH">> >>,
       <<"BTC-USDT-USD", <<"BTC-USD", "USDT-USD", "BTC-USDT">> >> >>

\* "TRIANG_" + std::to_string(epoch ms)
triangular_opportunity_id(t) == <<"TRIANG", EpochMs(t)>>

calculate_triangular_profit == 15000

create_triangular_opportunity(triangle, t) ==
    [ArbitrageOpportunity EXCEPT
        !.opportunity_id = triangular_opportunity_id(t),
        !.type           = "TRIANGULAR_ARBITRAGE",
        !.status         = "IDENTIFIED",
        !.mispricing_source.detection_time = t,
        !.expiry_time    = t + Minutes(15),
        !.legs           =
            [k \in 1 .. Len(triangle) |->
                ArbitrageLeg(triangle[k],
                             IF (k - 1) % 2 = 0 THEN "BID" ELSE "ASK",
                             100,
                             Price(100 + (k - 1)),
                             IF (k - 1) % 2 = 0 THEN 1 ELSE -1)]]

\* the opportunities identify_triangular_opportunities returns for the
\* k-th triangle and those after it
RECURSIVE identify_triangular_opportunities(_, _, _)
identify_triangular_opportunities(params, t, k) ==
    IF k > Len(currency_triangles_) THEN << >>
    ELSE LET triangle == currency_triangles_[k][2]
             opp == create_triangular_opportunity(triangle, t)
             profit == calculate_triangular_profit
         IN (IF Len(triangle) >= 3 /\ profit > params.min_profit_threshold
             THEN <<[opp EXCEPT !.expected_profit = (profit * 1000) \div PPM]>>
             ELSE << >>)
            \o identify_triangular_opportunities(params, t, k + 1)

\* validate_opportunity returning true and leaving the status as it is
TriangularArbitrageEngine_validate_opportunity_unmarked(opportunity) ==
    opportunity

TriangularArbitrageEngine_validate_opportunity(opportunity) ==
    [opportunity EXCEPT !.status = "VALIDATED"]

---------------------------------------------------------------------------
(* Callbacks, and the place of an opportunity in the run *)

\* serial is not a field of the code's struct: it numbers the opportunities
\* in the order they were put on an active list, to tell apart two that
\* carry the same opportunity_id
Stamp(opportunity, n) == [opportunity EXCEPT !.serial = n]

\* a handler that invoked the registered callback twice for one opportunity
InvokeCallback_twice(callback, name, opportunity) ==
    IF callback
    THEN <<[callback |-> name, opp |-> opportunity],
           [callback |-> name, opp |-> opportunity]>>
    ELSE << >>

\* if (callback_) { callback_(opp); }: the invocation a handler makes, with
\* the value it passes, when the std::function holds a target
InvokeCallback(callback, name, opportunity) ==
    IF callback THEN <<[callback |-> name, opp |-> opportunity]>> ELSE << >>

\* position of the first element of seq satisfying the id, 0 when none
FindById(seq, id) ==
    IF \E k \in DOMAIN seq : seq[k].opportunity_id = id
    THEN CHOOSE k \in DOMAIN seq :
            /\ seq[k].opportunity_id = id
            /\ \A j \in 1 .. (k - 1) : seq[j].opportunity_id # id
    ELSE 0

---------------------------------------------------------------------------
(* The callers' inputs *)

BaseMispricing(t) ==
    [MispricingOpportunity EXCEPT
        !.target_instrument = "BTC-USD",
        !.market_price      = Price(100),
        !.theoretical_price = Price(102),
        !.expected_profit   = 100,
        !.detection_time    = t,
        !.expiry_time       = t + Minutes(5)]

MispricingInputs(t) ==
    LET base == BaseMispricing(t) IN
    {base,
     [base EXCEPT !.component_instruments = <<"ETH-USD", "BTC-ETH">>,
                  !.weights = <<1>>,
                  !.market_price = Price(102),
                  !.theoretical_price = Price(100)],
     [base EXCEPT !.value_at_risk = 30, !.theoretical_price = Price(100)],
     [base EXCEPT !.expiry_time = t + Minutes(5) - 1],
     [base EXCEPT !.market_price = Price(30000),
                  !.theoretical_price = Price(30600)],
     [base EXCEPT !.type = "CROSS_CURRENCY_TRIANGULAR",
                  !.component_instruments =
                        <<"BTC-USD", "ETH-USD", "BTC-ETH">>,
                  !.expiry_time = 0]}

UnknownId == <<"ARB", 0, RandomLow>>

---------------------------------------------------------------------------
(* Initial state: a freshly constructed engine *)

\* the instruments of the snapshots, in the order a std::map iterates them
InstrumentOrder == <<"BTC-ETH", "BTC-USD", "ETH-USD">>
Instruments == {InstrumentOrder[k] : k \in DOMAIN InstrumentOrder}

\* a std::map<InstrumentId, std::queue<...>> with no key: a key the map
\* holds has a queue of at least one element
NoHistory == [i \in Instruments |-> << >>]

EngineKinds == {"ArbitrageEngine", "TriangularArbitrageEngine"}
DetectorKinds == {"StatisticalMispricingDetector",
                  "TriangularArbitrageDetector",
                  "VolatilityArbitrageDetector"}

\* the two threads of a concurrent run, and a thread that is in no call
Threads == {"reader", "writer"}
Idle == [at |-> "idle"]

\* the members as the constructors leave them; the clock is past its epoch
Constructed ==
    /\ now = 1
    /\ params_ = ArbitrageParameters
    /\ latest_snapshot_ = EmptySnapshot
    /\ active_opportunities_ = << >>
    /\ opportunity_callback_ = FALSE
    /\ update_callback_ = FALSE
    /\ created = 0
    /\ fired = << >>
    /\ arbitrage_opp = << >>
    /\ detection_params_ = DetectionParameters
    /\ price_history_ = NoHistory
    /\ volatility_history_ = NoHistory
    /\ detected = << >>
    /\ detectors_ = << >>
    /\ arrivals = NoHistory
    /\ pc = [thread \in Threads |-> Idle]
    /\ opportunities_mutex_ = "free"
    /\ overlap = FALSE
    /\ vol_surface = << >>
    /\ funding_rates_ = << >>
    /\ updates = << >>
    /\ returned = << >>
    /\ detection_callback_ = FALSE
    /\ expiry_callback_ = FALSE
    /\ forwarded = << >>

\* a run that constructs one engine
Init ==
    /\ Constructed
    /\ engine \in EngineKinds
    /\ detector = "none"

\* a run that constructs one detector
InitDetector ==
    /\ Constructed
    /\ engine = "none"
    /\ detector \in DetectorKinds

AdvanceClock ==
    /\ now + ClockStep <= MaxTime
    /\ now' = now + ClockStep
    /\ fired' = << >>
    /\ arbitrage_opp' = << >>
    /\ detected' = << >>
    /\ UNCHANGED <<engine, params_, latest_snapshot_, active_opportunities_,
                   opportunity_callback_, update_callback_, created>>
    /\ UNCHANGED <<detector, detection_params_, price_history_,
                   volatility_history_, detectors_, arrivals>>
    /\ UNCHANGED <<thread_vars, pricing_vars, forwarding_vars>>

---------------------------------------------------------------------------
(* ArbitrageEngine's handlers *)

\* cleanup_expired_opportunities: erase(remove_if(now >= expiry_time))
cleanup_expired_opportunities(active, t) ==
    SelectSeq(active, LAMBDA opp : ~(t >= opp.expiry_time))

ArbitrageEngine_update_market_data(snapshot) ==
    /\ engine = "ArbitrageEngine"
    /\ latest_snapshot_' = snapshot
    /\ active_opportunities_' =
            cleanup_expired_opportunities(active_opportunities_, now)
    /\ fired' = << >>
    /\ arbitrage_opp' = << >>
    /\ UNCHANGED <<now, engine, params_, opportunity_callback_,
                   update_callback_, created>>
    /\ UNCHANGED <<detector_vars, forwarding_vars, thread_vars, pricing_vars>>

ArbitrageEngine_process_mispricing(mispricing, r) ==
    /\ engine = "ArbitrageEngine"
    /\ created < MaxCreated
    /\ LET built == create_arbitrage_from_mispricing(mispricing, now, r)
           is_valid == ArbitrageEngine_is_valid(
                        built, latest_snapshot_, params_, now)
           validated == Stamp(ArbitrageEngine_validate_opportunity(
                        built, latest_snapshot_, params_, now), created + 1)
       IN /\ created' = IF is_valid THEN created + 1 ELSE created
          /\ active_opportunities_' =
                IF is_valid THEN Append(active_opportunities_, validated)
                            ELSE active_opportunities_
          /\ fired' =
                IF is_valid
                THEN InvokeCallback(opportunity_callback_,
                                    "opportunity_callback_", validated)
                ELSE << >>
          /\ arbitrage_opp' = <<validated>>
    /\ UNCHANGED <<now, engine, params_, latest_snapshot_,
                   opportunity_callback_, update_callback_>>
    /\ UNCHANGED <<detector_vars, forwarding_vars, thread_vars, pricing_vars>>

\* update_opportunity_status(ArbitrageOpportunity&) leaving a completed
\* opportunity as it is
refresh_opportunity_status_unless_completed(opportunity, t) ==
    IF t >= opportunity.expiry_time /\ opportunity.status # "COMPLETED"
    THEN [opportunity EXCEPT !.status = "EXPIRED"]
    ELSE opportunity

\* update_opportunity_status(ArbitrageOpportunity&)
refresh_opportunity_status(opportunity, t) ==
    IF t >= opportunity.expiry_time
    THEN [opportunity EXCEPT !.status = "EXPIRED"]
    ELSE opportunity

ArbitrageEngine_update_opportunity_status(opportunity_id, status) ==
    /\ engine = "ArbitrageEngine"
    /\ LET it == FindById(active_opportunities_, opportunity_id) IN
       IF it # 0
       THEN LET updated == refresh_opportunity_status(
                    [active_opportunities_[it] EXCEPT !.status = status], now)
            IN /\ active_opportunities_' =
                      [active_opportunities_ EXCEPT ![it] = updated]
               /\ fired' = InvokeCallback(update_callback_,
                                          "update_callback_", updated)
       ELSE /\ active_opportunities_' = active_opportunities_
            /\ fired' = << >>
    /\ arbitrage_opp' = << >>
    /\ UNCHANGED <<now, engine, params_, latest_snapshot_,
                   opportunity_callback_, update_callback_, created>>
    /\ UNCHANGED <<detector_vars, forwarding_vars, thread_vars, pricing_vars>>

---------------------------------------------------------------------------
(* TriangularArbitrageEngine's handlers *)

\* update_market_data, run while fewer than bound opportunities were put on
\* the active list
TriangularArbitrageEngine_update_market_data_within(snapshot, bound) ==
    /\ engine = "TriangularArbitrageEngine"
    /\ created < bound
    /\ LET opportunities ==
                identify_triangular_opportunities(params_, now, 1)
           validated ==
                [k \in DOMAIN opportunities |->
                    Stamp(TriangularArbitrageEngine_validate_opportunity(
                            opportunities[k]), created + k)]
           RECURSIVE done(_)
           done(k) ==
                IF k > Len(validated) THEN << >>
                ELSE InvokeCallback(opportunity_callback_,
                                    "opportunity_callback_", validated[k])
                     \o done(k + 1)
       IN /\ created' = created + Len(validated)
          /\ active_opportunities_' = active_opportunities_ \o validated
          /\ fired' = done(1)
          /\ arbitrage_opp' = << >>
    /\ UNCHANGED <<now, engine, params_, latest_snapshot_,
                   opportunity_callback_, update_callback_>>
    /\ UNCHANGED <<detector_vars, forwarding_vars, thread_vars, pricing_vars>>

TriangularArbitrageEngine_update_market_data(snapshot) ==
    TriangularArbitrageEngine_update_market_data_within(snapshot, MaxCreated)

\* process_mispricing, run while fewer than bound opportunities were put on
\* the active list
TriangularArbitrageEngine_process_mispricing_within(mispricing, bound) ==
    /\ engine = "TriangularArbitrageEngine"
    /\ created < bound
    /\ IF mispricing.type = "CROSS_CURRENCY_TRIANGULAR"
       THEN LET triangular_opp ==
                    Stamp([ArbitrageOpportunity EXCEPT
                        !.opportunity_id  = triangular_opportunity_id(now),
                        !.type            = "TRIANGULAR_ARBITRAGE",
                        !.status          = "IDENTIFIED",
                        !.mispricing_source.detection_time = now,
                        !.expected_profit = mispricing.expected_profit],
                      created + 1)
            IN /\ created' = created + 1
               /\ active_opportunities_' =
                      Append(active_opportunities_, triangular_opp)
       ELSE UNCHANGED <<created, active_opportunities_>>
    /\ fired' = << >>
    /\ arbitrage_opp' = << >>
    /\ UNCHANGED <<now, engine, params_, latest_snapshot_,
                   opportunity_callback_, update_callback_>>
    /\ UNCHANGED <<detector_vars, forwarding_vars, thread_vars, pricing_vars>>

TriangularArbitrageEngine_process_mispricing(mispricing) ==
    TriangularArbitrageEngine_process_mispricing_within(mispricing, MaxCreated)

---------------------------------------------------------------------------
(* Handlers both engines define alike *)

set_opportunity_callback(callback) ==
    /\ engine \in EngineKinds
    /\ opportunity_callback_' = callback
    /\ fired' = << >>
    /\ arbitrage_opp' = << >>
    /\ UNCHANGED <<now, engine, params_, latest_snapshot_,
                   active_opportunities_, update_callback_, created>>
    /\ UNCHANGED <<detector_vars, forwarding_vars, thread_vars, pricing_vars>>

set_update_callback(callback) ==
    /\ engine \in EngineKinds
    /\ update_callback_' = callback
    /\ fired' = << >>
    /\ arbitrage_opp' = << >>
    /\ UNCHANGED <<now, engine, params_, latest_snapshot_,
                   active_opportunities_, opportunity_callback_, created>>
    /\ UNCHANGED <<detector_vars, forwarding_vars, thread_vars, pricing_vars>>

update_parameters(params) ==
    /\ engine \in EngineKinds
    /\ params_' = params
    /\ fired' = << >>
    /\ arbitrage_opp' = << >>
    /\ UNCHANGED <<now, engine, latest_snapshot_, active_opportunities_,
                   opportunity_callback_, update_callback_, created>>
    /\ UNCHANGED <<detector_vars, forwarding_vars, thread_vars, pricing_vars>>

clear_opportunities ==
    /\ engine \in EngineKinds
    /\ active_opportunities_' = << >>
    /\ fired' = << >>
    /\ arbitrage_opp' = << >>
    /\ UNCHANGED <<now, engine, params_, latest_snapshot_,
                   opportunity_callback_, update_callback_, created>>
    /\ UNCHANGED <<detector_vars, forwarding_vars, thread_vars, pricing_vars>>

Next ==
    \/ AdvanceClock
    \/ \E snapshot \in Snapshots : ArbitrageEngine_update_market_data(snapshot)
    \/ \E mispricing \in MispricingInputs(now), r \in RandomDraws :
            ArbitrageEngine_process_mispricing(mispricing, r)
    \/ \E id \in {active_opportunities_[k].opportunity_id :
                        k \in DOMAIN active_opportunities_} \cup {UnknownId},
          status \in ArbitrageStatus :
            ArbitrageEngine_update_opportunity_status(id, status)
    \/ \E snapshot \in Snapshots :
            TriangularArbitrageEngine_update_market_data(snapshot)
    \/ \E mispricing \in MispricingInputs(now) :
            TriangularArbitrageEngine_process_mispricing(mispricing)
    \/ \E callback \in BOOLEAN : set_opportunity_callback(callback)
    \/ \E callback \in BOOLEAN : set_update_callback(callback)
    \/ \E params \in ParameterChoices : update_parameters(params)
    \/ clear_opportunities

Spec == Init /\ [][Next]_vars

\* the engines under the calls that set and read an opportunity's status
NextStatus ==
    \/ AdvanceClock
    \/ \E snapshot \in Snapshots : ArbitrageEngine_update_market_data(snapshot)
    \/ \E r \in RandomDraws :
            ArbitrageEngine_process_mispricing(BaseMispricing(now), r)
    \/ \E id \in {active_opportunities_[k].opportunity_id :
                        k \in DOMAIN active_opportunities_} \cup {UnknownId},
          status \in ArbitrageStatus :
            ArbitrageEngine_update_opportunity_status(id, status)
    \/ \E callback \in BOOLEAN : set_update_callback(callback)
    \/ clear_opportunities

SpecStatus == Init /\ [][NextStatus]_vars

\* a TriangularArbitrageEngine alone
InitTriangular ==
    /\ Constructed
    /\ engine = "TriangularArbitrageEngine"
    /\ detector = "none"

NextTriangular ==
    \/ AdvanceClock
    \/ \E snapshot \in Snapshots :
            TriangularArbitrageEngine_update_market_data_within(
                snapshot, MaxTriangularCreated)
    \/ \E mispricing \in MispricingInputs(now) :
            TriangularArbitrageEngine_process_mispricing_within(
                mispricing, MaxTriangularCreated)
    \/ \E callback \in BOOLEAN : set_opportunity_callback(callback)
    \/ \E params \in ParameterChoices : update_parameters(params)
    \/ clear_opportunities

SpecTriangular == InitTriangular /\ [][NextTriangular]_vars

---------------------------------------------------------------------------
(* The mispricing detectors *)

\* the parameter sets a caller passes to a detector's update_parameters
DetectionParameterChoices ==
    {DetectionParameters,
     [DetectionParameters EXCEPT !.min_observation_window = 2],
     [DetectionParameters EXCEPT !.min_observation_window = 2,
                                 !.min_z_score = 3000000],
     [DetectionParameters EXCEPT !.min_deviation_threshold = 15000]}

DetectorSnapshots == {EmptySnapshot, DeepSnapshot, PairSnapshot}

\* the keys of a history map, in the order the map iterates them
Keys(history) ==
    SelectSeq(InstrumentOrder, LAMBDA i : history[i] # << >>)

\* update_price_history: push, then pop once when over twice the window
update_price_history(history, quote, params) ==
    LET pushed == Append(history, quote) IN
    IF Len(pushed) > params.min_observation_window * 2
    THEN Tail(pushed) ELSE pushed

StatisticalMispricingDetector_detect_opportunities(history, params, t) ==
    LET qualifying ==
            SelectSeq(Keys(history),
                      LAMBDA i : Len(history[i]) >= params.min_observation_window)
    IN [k \in DOMAIN qualifying |->
            LET price_queue == history[qualifying[k]]
                market_price == price_queue[Len(price_queue)].bid_price
            IN [MispricingOpportunity EXCEPT
                    !.detection_time       = t,
                    !.target_instrument    = qualifying[k],
                    !.type                 = "STATISTICAL_ARBITRAGE",
                    !.severity             = "MEDIUM",
                    !.market_price         = market_price,
                    !.theoretical_price    = (market_price * 102) \div 100,
                    !.deviation_percentage = 20000,
                    !.z_score              = 2500000,
                    !.confidence_level     = 850000,
                    !.expected_profit      = 100,
                    !.max_loss             = 50,
                    !.value_at_risk        = 30]]

TriangularArbitrageDetector_detect_opportunities(t) ==
    LET qualifying ==
            SelectSeq(currency_triangles_, LAMBDA tri : Len(tri[2]) >= 3)
    IN [k \in DOMAIN qualifying |->
            LET instruments == qualifying[k][2] IN
            [MispricingOpportunity EXCEPT
                !.detection_time        = t,
                !.target_instrument     = instruments[1],
                !.component_instruments = instruments,
                !.type                  = "CROSS_CURRENCY_TRIANGULAR",
                !.severity              = "MEDIUM",
                !.market_price          = Price(100),
                !.theoretical_price     = Price(101) + 5,
                !.deviation_percentage  = 15000,
                !.z_score               = 2200000,
                !.confidence_level      = 880000,
                !.expected_profit       = 150,
                !.max_loss              = 75]]

VolatilityArbitrageDetector_detect_opportunities(history, t) ==
    LET qualifying ==
            SelectSeq(Keys(history), LAMBDA i : Len(history[i]) >= 20)
    IN [k \in DOMAIN qualifying |->
            [MispricingOpportunity EXCEPT
                !.detection_time       = t,
                !.target_instrument    = qualifying[k],
                !.type                 = "VOLATILITY_ARBITRAGE",
                !.severity             = "LOW",
                !.market_price         = Price(100),
                !.theoretical_price    = Price(100) + 8,
                !.deviation_percentage = 8000,
                !.z_score              = 1800000,
                !.confidence_level     = 750000,
                !.expected_profit      = 80,
                !.max_loss             = 40]]

\* the severity mapping with its boundaries taken as inclusive
assess_severity_inclusive(deviation_percentage) ==
    IF Abs(deviation_percentage) >= 50000 THEN "CRITICAL"
    ELSE IF Abs(deviation_percentage) >= 20000 THEN "HIGH"
    ELSE IF Abs(deviation_percentage) >= 10000 THEN "MEDIUM"
    ELSE "LOW"

\* assess_severity, of the deviation_percentage of its PriceDeviation (no
\* detect_opportunities calls it)
assess_severity(deviation_percentage) ==
    IF Abs(deviation_percentage) > 50000 THEN "CRITICAL"
    ELSE IF Abs(deviation_percentage) > 20000 THEN "HIGH"
    ELSE IF Abs(deviation_percentage) > 10000 THEN "MEDIUM"
    ELSE "LOW"

\* TriangularArbitrageDetector::calculate_triangular_profit: 1.5% whatever
\* the quotes (no detect_opportunities calls it)
TriangularArbitrageDetector_calculate_triangular_profit == 15000

\* TriangularArbitrageDetector::is_profitable_triangle (no
\* detect_opportunities calls it)
is_profitable_triangle(profit_percentage, params) ==
    profit_percentage > params.min_deviation_threshold

\* double mid_price = (quote.bid_price + quote.ask_price) / 2.0, in tenths
mid_price(quote) == (quote.bid_price + quote.ask_price) \div 2

\* a history that is never trimmed
update_volatility_history_unbounded(history, quote) ==
    Append(history, mid_price(quote))

\* the body of VolatilityArbitrageDetector::update_market_data's loop: push
\* the mid price, then pop once when over 100
update_volatility_history(history, quote) ==
    LET pushed == Append(history, mid_price(quote))
    IN IF Len(pushed) > 100 THEN Tail(pushed) ELSE pushed

\* is_significant_deviation (no detect_opportunities calls it)
is_significant_deviation(deviation, z_score, confidence, params) ==
    /\ Abs(deviation) > params.min_deviation_threshold
    /\ Abs(z_score) > params.min_z_score
    /\ confidence > params.min_confidence_level

Detector_update_market_data(snapshot) ==
    /\ detector \in DetectorKinds
    /\ \A i \in Instruments :
            /\ Len(price_history_[i]) < MaxObservations
            /\ Len(volatility_history_[i]) < MaxObservations
    /\ price_history_' =
            IF detector = "StatisticalMispricingDetector"
            THEN [i \in Instruments |->
                    IF i \in DOMAIN snapshot
                    THEN update_price_history(price_history_[i], snapshot[i],
                                              detection_params_)
                    ELSE price_history_[i]]
            ELSE price_history_
    /\ volatility_history_' =
            IF detector = "VolatilityArbitrageDetector"
            THEN [i \in Instruments |->
                    IF i \in DOMAIN snapshot
                    THEN update_volatility_history(volatility_history_[i],
                                                   snapshot[i])
                    ELSE volatility_history_[i]]
            ELSE volatility_history_
    /\ arrivals' =
            IF detector = "VolatilityArbitrageDetector"
            THEN [i \in Instruments |->
                    IF i \in DOMAIN snapshot
                    THEN Append(arrivals[i], mid_price(snapshot[i]))
                    ELSE arrivals[i]]
            ELSE arrivals
    /\ detected' = << >>
    /\ UNCHANGED <<thread_vars, pricing_vars, forwarding_vars>>
    /\ UNCHANGED <<now, engine_vars, detector, detection_params_, detectors_>>

Detector_detect_opportunities ==
    /\ detector \in DetectorKinds
    /\ detected' =
            CASE detector = "StatisticalMispricingDetector" ->
                    StatisticalMispricingDetector_detect_opportunities(
                        price_history_, detection_params_, now)
              [] detector = "TriangularArbitrageDetector" ->
                    TriangularArbitrageDetector_detect_opportunities(now)
              [] detector = "VolatilityArbitrageDetector" ->
                    VolatilityArbitrageDetector_detect_opportunities(
                        volatility_history_, now)
    /\ UNCHANGED <<thread_vars, pricing_vars, forwarding_vars>>
    /\ UNCHANGED <<now, engine_vars, detector, detection_params_,
                   price_history_, volatility_history_, detectors_, arrivals>>

Detector_update_parameters(params) ==
    /\ detector \in DetectorKinds
    /\ detection_params_' = params
    /\ detected' = << >>
    /\ UNCHANGED <<thread_vars, pricing_vars, forwarding_vars>>
    /\ UNCHANGED <<now, engine_vars, detector, price_history_,
                   volatility_history_, detectors_, arrivals>>

NextDetector ==
    \/ AdvanceClock
    \/ \E snapshot \in DetectorSnapshots : Detector_update_market_data(snapshot)
    \/ Detector_detect_opportunities
    \/ \E params \in DetectionParameterChoices :
            Detector_update_parameters(params)

SpecDetector == InitDetector /\ [][NextDetector]_vars

---------------------------------------------------------------------------
(* VolatilityArbitrageDetector under a long feed: every quote of an        *)
(* instrument is one tenth above the one before it, so that each mid price *)
(* of an instrument is delivered once                                      *)

\* the k-th quote the feed delivers for an instrument, counting from 0
FeedQuote(k) == Quote(Price(100) + k, Price(101) + k, 200, 200)

FeedInstruments == {{"BTC-USD"}, {"BTC-USD", "ETH-USD"}}

FeedSnapshot(instruments) ==
    [i \in instruments |-> FeedQuote(Len(arrivals[i]))]

InitVolatilityHistory ==
    /\ Constructed
    /\ engine = "none"
    /\ detector = "VolatilityArbitrageDetector"

VolatilityArbitrageDetector_update_market_data(snapshot) ==
    /\ detector = "VolatilityArbitrageDetector"
    /\ \A i \in Instruments : Len(arrivals[i]) < MaxArrivals
    /\ volatility_history_' =
            [i \in Instruments |->
                IF i \in DOMAIN snapshot
                THEN update_volatility_history(volatility_history_[i],
                                               snapshot[i])
                ELSE volatility_history_[i]]
    /\ arrivals' =
            [i \in Instruments |->
                IF i \in DOMAIN snapshot
                THEN Append(arrivals[i], mid_price(snapshot[i]))
                ELSE arrivals[i]]
    /\ detected' = << >>
    /\ UNCHANGED <<thread_vars, pricing_vars, forwarding_vars>>
    /\ UNCHANGED <<now, engine_vars, detector, detection_params_,
                   price_history_, detectors_>>

NextVolatilityHistory ==
    \E instruments \in FeedInstruments :
        VolatilityArbitrageDetector_update_market_data(
            FeedSnapshot(instruments))

SpecVolatilityHistory ==
    InitVolatilityHistory /\ [][NextVolatilityHistory]_vars

---------------------------------------------------------------------------
(* CompositeMispricingDetector.  A child is one of the three detectors     *)
(* above, with its own DetectionParameters; the composite holds at most    *)
(* one child of a kind, whose history is price_history_ or                 *)
(* volatility_history_.                                                    *)

\* a child constructed with what the composite holds at the time
Child_as_composite(kind, params) ==
    [kind |-> kind, params_ |-> detection_params_,
     detection_callback_ |-> detection_callback_,
     expiry_callback_ |-> expiry_callback_]

Child(kind, params) ==
    [kind |-> kind, params_ |-> params,
     detection_callback_ |-> FALSE, expiry_callback_ |-> FALSE]

\* for (auto &detector : detectors_) detector->call(...): the calls made, in
\* the order made
Forward(call) ==
    [k \in DOMAIN detectors_ |-> [child |-> detectors_[k].kind, call |-> call]]

CompositeParameterChoices ==
    {DetectionParameters,
     [DetectionParameters EXCEPT !.min_observation_window = 2]}

CompositeSnapshots == {EmptySnapshot, PairSnapshot}

InitComposite ==
    /\ Constructed
    /\ engine = "none"
    /\ detector = "CompositeMispricingDetector"

\* what detector->detect_opportunities() returns for one child
child_detect_opportunities(child, t) ==
    CASE child.kind = "StatisticalMispricingDetector" ->
            StatisticalMispricingDetector_detect_opportunities(
                price_history_, child.params_, t)
      [] child.kind = "TriangularArbitrageDetector" ->
            TriangularArbitrageDetector_detect_opportunities(t)
      [] child.kind = "VolatilityArbitrageDetector" ->
            VolatilityArbitrageDetector_detect_opportunities(
                volatility_history_, t)

\* all_opportunities before consolidation: the children's results, in the
\* order of detectors_
RECURSIVE all_opportunities(_, _, _)
all_opportunities(children, t, k) ==
    IF k > Len(children) THEN << >>
    ELSE child_detect_opportunities(children[k], t)
            \o all_opportunities(children, t, k + 1)

\* a consolidation that leaves the list as the children returned it
consolidate_opportunities_unsorted(opportunities) == {opportunities}

\* consolidate_opportunities: std::sort by expected_profit descending and
\* nothing else.  std::sort is not stable: every descending arrangement of
\* the list is a possible outcome.
consolidate_opportunities(opportunities) ==
    LET RECURSIVE Orders(_)
        Orders(S) ==
            IF S = {} THEN {<< >>}
            ELSE LET top == {i \in S : \A j \in S :
                                opportunities[i].expected_profit
                                    >= opportunities[j].expected_profit}
                 IN UNION {{<<opportunities[i]>> \o rest :
                                rest \in Orders(S \ {i})} : i \in top}
    IN Orders(DOMAIN opportunities)

\* a new child, constructed with default parameters, has no history yet
add_detector(kind) ==
    /\ detector = "CompositeMispricingDetector"
    /\ \A k \in DOMAIN detectors_ : detectors_[k].kind # kind
    /\ detectors_' = Append(detectors_, Child(kind, DetectionParameters))
    /\ detected' = << >>
    /\ forwarded' = << >>
    /\ UNCHANGED <<detection_callback_, expiry_callback_>>
    /\ UNCHANGED <<thread_vars, pricing_vars>>
    /\ UNCHANGED <<now, engine_vars, detector, detection_params_,
                   price_history_, volatility_history_, arrivals>>

\* erasing the unique_ptr destroys the child and its history
remove_detector(index) ==
    /\ detector = "CompositeMispricingDetector"
    /\ IF index < Len(detectors_)
       THEN LET erased == detectors_[index + 1].kind IN
            /\ detectors_' =
                    [k \in 1..(Len(detectors_) - 1) |->
                        IF k <= index THEN detectors_[k]
                                      ELSE detectors_[k + 1]]
            /\ price_history_' =
                    IF erased = "StatisticalMispricingDetector"
                    THEN NoHistory ELSE price_history_
            /\ volatility_history_' =
                    IF erased = "VolatilityArbitrageDetector"
                    THEN NoHistory ELSE volatility_history_
            /\ arrivals' =
                    IF erased = "VolatilityArbitrageDetector"
                    THEN NoHistory ELSE arrivals
       ELSE UNCHANGED <<detectors_, price_history_, volatility_history_,
                        arrivals>>
    /\ detected' = << >>
    /\ forwarded' = << >>
    /\ UNCHANGED <<detection_callback_, expiry_callback_>>
    /\ UNCHANGED <<thread_vars, pricing_vars>>
    /\ UNCHANGED <<now, engine_vars, detector, detection_params_>>

\* the parameters of the child of that kind; none when there is no such child
ChildOfKind(kind) ==
    SelectSeq(detectors_, LAMBDA child : child.kind = kind)

CompositeMispricingDetector_update_market_data(snapshot) ==
    /\ detector = "CompositeMispricingDetector"
    /\ forwarded' = Forward("update_market_data")
    /\ \A i \in Instruments :
            /\ Len(price_history_[i]) < MaxChildObservations
            /\ Len(volatility_history_[i]) < MaxChildObservations
    /\ LET statistical == ChildOfKind("StatisticalMispricingDetector")
           volatility == ChildOfKind("VolatilityArbitrageDetector")
       IN /\ price_history_' =
                [i \in Instruments |->
                    IF statistical # << >> /\ i \in DOMAIN snapshot
                    THEN update_price_history(price_history_[i], snapshot[i],
                                              statistical[1].params_)
                    ELSE price_history_[i]]
          /\ volatility_history_' =
                [i \in Instruments |->
                    IF volatility # << >> /\ i \in DOMAIN snapshot
                    THEN update_volatility_history(volatility_history_[i],
                                                   snapshot[i])
                    ELSE volatility_history_[i]]
          /\ arrivals' =
                [i \in Instruments |->
                    IF volatility # << >> /\ i \in DOMAIN snapshot
                    THEN Append(arrivals[i], mid_price(snapshot[i]))
                    ELSE arrivals[i]]
    /\ detected' = << >>
    /\ UNCHANGED <<detection_callback_, expiry_callback_>>
    /\ UNCHANGED <<thread_vars, pricing_vars>>
    /\ UNCHANGED <<now, engine_vars, detector, detection_params_, detectors_>>

CompositeMispricingDetector_detect_opportunities ==
    /\ detector = "CompositeMispricingDetector"
    /\ forwarded' = Forward("detect_opportunities")
    /\ detected' \in consolidate_opportunities(
                        all_opportunities(detectors_, now, 1))
    /\ UNCHANGED <<detection_callback_, expiry_callback_>>
    /\ UNCHANGED <<thread_vars, pricing_vars>>
    /\ UNCHANGED <<now, engine_vars, detector, detection_params_,
                   price_history_, volatility_history_, detectors_, arrivals>>

CompositeMispricingDetector_update_parameters(params) ==
    /\ detector = "CompositeMispricingDetector"
    /\ detection_params_' = params
    /\ detectors_' = [k \in DOMAIN detectors_ |->
                        [detectors_[k] EXCEPT !.params_ = params]]
    /\ detected' = << >>
    /\ forwarded' = Forward("update_parameters")
    /\ UNCHANGED <<detection_callback_, expiry_callback_>>
    /\ UNCHANGED <<thread_vars, pricing_vars>>
    /\ UNCHANGED <<now, engine_vars, detector, price_history_,
                   volatility_history_, arrivals>>

CompositeMispricingDetector_set_detection_callback(callback) ==
    /\ detector = "CompositeMispricingDetector"
    /\ detection_callback_' = callback
    /\ detectors_' = [k \in DOMAIN detectors_ |->
                        [detectors_[k] EXCEPT !.detection_callback_ = callback]]
    /\ forwarded' = Forward("set_detection_callback")
    /\ detected' = << >>
    /\ UNCHANGED <<thread_vars, pricing_vars, expiry_callback_>>
    /\ UNCHANGED <<now, engine_vars, detector, detection_params_,
                   price_history_, volatility_history_, arrivals>>

CompositeMispricingDetector_set_expiry_callback(callback) ==
    /\ detector = "CompositeMispricingDetector"
    /\ expiry_callback_' = callback
    /\ detectors_' = [k \in DOMAIN detectors_ |->
                        [detectors_[k] EXCEPT !.expiry_callback_ = callback]]
    /\ forwarded' = Forward("set_expiry_callback")
    /\ detected' = << >>
    /\ UNCHANGED <<thread_vars, pricing_vars, detection_callback_>>
    /\ UNCHANGED <<now, engine_vars, detector, detection_params_,
                   price_history_, volatility_history_, arrivals>>

NextComposite ==
    \/ \E kind \in DetectorKinds : add_detector(kind)
    \/ \E index \in 0..Cardinality(DetectorKinds) : remove_detector(index)
    \/ \E snapshot \in CompositeSnapshots :
            CompositeMispricingDetector_update_market_data(snapshot)
    \/ CompositeMispricingDetector_detect_opportunities
    \/ \E params \in CompositeParameterChoices :
            CompositeMispricingDetector_update_parameters(params)

SpecComposite == InitComposite /\ [][NextComposite]_vars

\* a composite that is given children, parameters and callbacks and is fed
NextForwarding ==
    \/ \E kind \in DetectorKinds : add_detector(kind)
    \/ CompositeMispricingDetector_update_market_data(PairSnapshot)
    \/ CompositeMispricingDetector_detect_opportunities
    \/ \E params \in CompositeParameterChoices :
            CompositeMispricingDetector_update_parameters(params)
    \/ \E callback \in BOOLEAN :
            CompositeMispricingDetector_set_detection_callback(callback)
    \/ \E callback \in BOOLEAN :
            CompositeMispricingDetector_set_expiry_callback(callback)

SpecForwarding == InitComposite /\ [][NextForwarding]_vars

---------------------------------------------------------------------------
(* A detector and an ArbitrageEngine: what detect_opportunities returned   *)
(* is passed, as returned, to process_mispricing                           *)

InitPipeline ==
    /\ Constructed
    /\ engine = "ArbitrageEngine"
    /\ detector \in DetectorKinds \cup {"CompositeMispricingDetector"}

NextPipeline ==
    \/ AdvanceClock
    \/ Detector_update_market_data(DeepSnapshot)
    \/ Detector_detect_opportunities
    \/ \E params \in CompositeParameterChoices :
            Detector_update_parameters(params)
    \/ \E kind \in DetectorKinds : add_detector(kind)
    \/ CompositeMispricingDetector_update_market_data(PairSnapshot)
    \/ CompositeMispricingDetector_detect_opportunities
    \/ \E params \in CompositeParameterChoices :
            CompositeMispricingDetector_update_parameters(params)
    \/ ArbitrageEngine_update_market_data(DeepSnapshot)
    \/ set_opportunity_callback(TRUE)
    \/ \E k \in DOMAIN detected, r \in {RandomLow, RandomHigh} :
            ArbitrageEngine_process_mispricing(detected[k], r)

SpecPipeline == InitPipeline /\ [][NextPipeline]_vars

---------------------------------------------------------------------------
(* The paths on which an engine constructs an opportunity:                 *)
(* create_arbitrage_from_mispricing (in process_mispricing),               *)
(* ArbitrageEngine::identify_opportunities and create_triangular_          *)
(* opportunity (in TriangularArbitrageEngine::update_market_data)          *)

\* total_exposure * 0.05, total_exposure the sum of |size * entry_price *
\* weight| over the legs
RECURSIVE total_exposure(_)
total_exposure(legs) ==
    IF legs = << >> THEN 0
    ELSE Abs(Head(legs).size * Head(legs).entry_price * Head(legs).weight)
         + total_exposure(Tail(legs))

calculate_value_at_risk(opportunity) ==
    (total_exposure(opportunity.legs) * 5) \div (100 * PriceScale)

calculate_expected_shortfall(opportunity) ==
    (calculate_value_at_risk(opportunity) * 13) \div 10

\* calculate_correlation_risk finding no pair among two legs
calculate_correlation_risk_no_pair(legs) ==
    IF Len(legs) < 3 THEN 0 ELSE 600000

calculate_correlation_risk(legs) ==
    IF Len(legs) < 2 THEN 0 ELSE 600000

RECURSIVE total_volume(_)
total_volume(legs) ==
    IF legs = << >> THEN 0
    ELSE Head(legs).size + total_volume(Tail(legs))

\* (total_volume / 1000.0) * 0.001, in parts per million
calculate_market_impact(opportunity) ==
    (total_volume(opportunity.legs) * 1000) \div 1000

\* identify_opportunities asking for three quotes
identify_opportunities_three_quotes(snapshot, t, r) ==
    LET quotes == SelectSeq(InstrumentOrder, LAMBDA i : i \in DOMAIN snapshot)
    IN IF Len(quotes) >= 3
       THEN LET legs ==
                    [i \in 1 .. 2 |->
                        ArbitrageLeg(quotes[i],
                                     IF i = 1 THEN "BID" ELSE "ASK",
                                     100,
                                     mid_price(snapshot[quotes[i]]),
                                     IF i = 1 THEN 1 ELSE -1)]
                opp == [ArbitrageOpportunity EXCEPT
                            !.opportunity_id = generate_opportunity_id(t, r),
                            !.type = "CROSS_EXCHANGE_SYNTHETIC_REPLICATION",
                            !.status = "IDENTIFIED",
                            !.mispricing_source.detection_time = t,
                            !.legs = legs,
                            !.expected_profit = 250,
                            !.max_loss = 125]
                measured == [opp EXCEPT
                            !.value_at_risk = calculate_value_at_risk(opp)]
            IN <<[measured EXCEPT
                    !.expected_shortfall = calculate_expected_shortfall(measured),
                    !.correlation_risk = calculate_correlation_risk(legs),
                    !.market_impact = calculate_market_impact(measured),
                    !.expiry_time = t + Minutes(30)]>>
       ELSE << >>

\* what ArbitrageEngine::identify_opportunities returns: one opportunity on
\* the first two quotes of the snapshot when it has two, none otherwise
identify_opportunities(snapshot, t, r) ==
    LET quotes == SelectSeq(InstrumentOrder, LAMBDA i : i \in DOMAIN snapshot)
    IN IF Len(quotes) >= 2
       THEN LET legs ==
                    [i \in 1 .. 2 |->
                        ArbitrageLeg(quotes[i],
                                     IF i = 1 THEN "BID" ELSE "ASK",
                                     100,
                                     mid_price(snapshot[quotes[i]]),
                                     IF i = 1 THEN 1 ELSE -1)]
                opp == [ArbitrageOpportunity EXCEPT
                            !.opportunity_id = generate_opportunity_id(t, r),
                            !.type = "CROSS_EXCHANGE_SYNTHETIC_REPLICATION",
                            !.status = "IDENTIFIED",
                            !.mispricing_source.detection_time = t,
                            !.legs = legs,
                            !.expected_profit = 250,
                            !.max_loss = 125]
                measured == [opp EXCEPT
                            !.value_at_risk = calculate_value_at_risk(opp)]
            IN <<[measured EXCEPT
                    !.expected_shortfall = calculate_expected_shortfall(measured),
                    !.correlation_risk = calculate_correlation_risk(legs),
                    !.market_impact = calculate_market_impact(measured),
                    !.expiry_time = t + Minutes(30)]>>
       ELSE << >>

ArbitrageEngine_identify_opportunities(r) ==
    /\ engine = "ArbitrageEngine"
    /\ arbitrage_opp' = identify_opportunities(latest_snapshot_, now, r)
    /\ returned' = <<[call |-> "identify_opportunities",
                      value |-> arbitrage_opp']>>
    /\ fired' = << >>
    /\ UNCHANGED <<now, engine, params_, latest_snapshot_,
                   active_opportunities_, opportunity_callback_,
                   update_callback_, created>>
    /\ UNCHANGED <<detector_vars, forwarding_vars, thread_vars, vol_surface, funding_rates_,
                   updates>>

\* the mispricings a caller passes: a component with a positive weight under
\* a BID and under an ASK primary leg, negative and larger weights, a weight
\* of zero, a target no snapshot quotes, an expiry one tick short of five
\* minutes away and one at the time of the call, and the value at risk a
\* StatisticalMispricingDetector reports
ConstructionInputs(t) ==
    LET base == BaseMispricing(t) IN
    {[base EXCEPT !.component_instruments = <<"ETH-USD">>,
                  !.weights = <<1>>],
     [base EXCEPT !.component_instruments = <<"ETH-USD">>,
                  !.weights = <<1>>,
                  !.market_price = Price(102),
                  !.theoretical_price = Price(100)],
     [base EXCEPT !.component_instruments = <<"ETH-USD", "BTC-ETH">>,
                  !.weights = <<-1, 2>>],
     [base EXCEPT !.component_instruments = <<"ETH-USD">>,
                  !.weights = <<0>>],
     [base EXCEPT !.target_instrument = "SOL-USD"],
     [base EXCEPT !.expiry_time = t + Minutes(5) - 1],
     [base EXCEPT !.expiry_time = t],
     [base EXCEPT !.value_at_risk = 30]}

NextConstruction ==
    \/ \E snapshot \in Snapshots : ArbitrageEngine_update_market_data(snapshot)
    \/ \E mispricing \in ConstructionInputs(now), r \in RandomDraws :
            ArbitrageEngine_process_mispricing(mispricing, r)
    \/ \E r \in RandomDraws : ArbitrageEngine_identify_opportunities(r)
    \/ \E snapshot \in Snapshots :
            TriangularArbitrageEngine_update_market_data(snapshot)
    \/ \E params \in ParameterChoices : update_parameters(params)
    \/ clear_opportunities

SpecConstruction == Init /\ [][NextConstruction]_vars

---------------------------------------------------------------------------
(* ArbitrageEngine called from two threads: the reader calls               *)
(* get_active_opportunities, the writer process_mispricing and             *)
(* update_market_data.  The class has no mutex (arbitrage_engine.hpp); a   *)
(* call is split where it reads or writes active_opportunities_            *)

InitEngineThreads ==
    /\ Constructed
    /\ engine = "ArbitrageEngine"
    /\ detector = "none"

\* the writer is inside push_back, or inside an erase that removes something
EngineModifying ==
    \/ pc["writer"].at = "push_back"
    \/ /\ pc["writer"].at = "erase"
       /\ pc["writer"].kept # active_opportunities_

\* return active_opportunities_; the copy constructor starts reading
get_active_opportunities_copy ==
    /\ engine = "ArbitrageEngine"
    /\ pc["reader"] = Idle
    /\ pc' = [pc EXCEPT !["reader"] = [at |-> "copy"]]
    /\ overlap' = EngineModifying
    /\ returned' = << >>
    /\ fired' = << >>
    /\ arbitrage_opp' = << >>
    /\ UNCHANGED <<now, engine, params_, latest_snapshot_,
                   active_opportunities_, opportunity_callback_,
                   update_callback_, created>>
    /\ UNCHANGED <<detector_vars, forwarding_vars, opportunities_mutex_, vol_surface,
                   funding_rates_, updates>>

\* the copy is done: the list as it is when no modification overlapped the
\* copy, and otherwise (a data race) the list as it is or an indeterminate
\* value, which the model does not describe
get_active_opportunities_return ==
    /\ pc["reader"].at = "copy"
    /\ \E indeterminate \in (IF overlap THEN BOOLEAN ELSE {FALSE}) :
            returned' = <<[call |-> "get_active_opportunities",
                           indeterminate |-> indeterminate,
                           value |-> IF indeterminate THEN << >>
                                     ELSE active_opportunities_]>>
    /\ pc' = [pc EXCEPT !["reader"] = Idle]
    /\ overlap' = FALSE
    /\ fired' = << >>
    /\ arbitrage_opp' = << >>
    /\ UNCHANGED <<now, engine, params_, latest_snapshot_,
                   active_opportunities_, opportunity_callback_,
                   update_callback_, created>>
    /\ UNCHANGED <<detector_vars, forwarding_vars, opportunities_mutex_, vol_surface,
                   funding_rates_, updates>>

\* process_mispricing up to its push_back: the opportunity is built and
\* validated, and push_back starts when it is valid
process_mispricing_validate(mispricing, r) ==
    /\ engine = "ArbitrageEngine"
    /\ pc["writer"] = Idle
    /\ created < MaxCreated
    /\ LET built == create_arbitrage_from_mispricing(mispricing, now, r)
           is_valid == ArbitrageEngine_is_valid(
                        built, latest_snapshot_, params_, now)
           validated == Stamp(ArbitrageEngine_validate_opportunity(
                        built, latest_snapshot_, params_, now), created + 1)
       IN /\ arbitrage_opp' = <<validated>>
          /\ pc' = IF is_valid
                   THEN [pc EXCEPT !["writer"] =
                            [at |-> "push_back", opp |-> validated]]
                   ELSE pc
          /\ overlap' = (overlap \/ (is_valid /\ pc["reader"].at = "copy"))
    /\ fired' = << >>
    /\ UNCHANGED <<now, engine, params_, latest_snapshot_,
                   active_opportunities_, opportunity_callback_,
                   update_callback_, created>>
    /\ UNCHANGED <<detector_vars, forwarding_vars, opportunities_mutex_, pricing_vars>>

\* push_back is done, and the callback runs
process_mispricing_push_back ==
    /\ pc["writer"].at = "push_back"
    /\ active_opportunities_' =
            Append(active_opportunities_, pc["writer"].opp)
    /\ created' = created + 1
    /\ fired' = InvokeCallback(opportunity_callback_,
                               "opportunity_callback_", pc["writer"].opp)
    /\ pc' = [pc EXCEPT !["writer"] = Idle]
    /\ arbitrage_opp' = << >>
    /\ UNCHANGED <<now, engine, params_, latest_snapshot_,
                   opportunity_callback_, update_callback_>>
    /\ UNCHANGED <<detector_vars, forwarding_vars, opportunities_mutex_, overlap,
                   pricing_vars>>

\* update_market_data up to the erase of cleanup_expired_opportunities
update_market_data_store(snapshot) ==
    /\ engine = "ArbitrageEngine"
    /\ pc["writer"] = Idle
    /\ latest_snapshot_' = snapshot
    /\ LET kept == cleanup_expired_opportunities(active_opportunities_, now)
       IN /\ pc' = [pc EXCEPT !["writer"] = [at |-> "erase", kept |-> kept]]
          /\ overlap' = (overlap \/ (kept # active_opportunities_
                                        /\ pc["reader"].at = "copy"))
    /\ fired' = << >>
    /\ arbitrage_opp' = << >>
    /\ UNCHANGED <<now, engine, params_, active_opportunities_,
                   opportunity_callback_, update_callback_, created>>
    /\ UNCHANGED <<detector_vars, forwarding_vars, opportunities_mutex_, pricing_vars>>

\* the erase is done
update_market_data_erase ==
    /\ pc["writer"].at = "erase"
    /\ active_opportunities_' = pc["writer"].kept
    /\ pc' = [pc EXCEPT !["writer"] = Idle]
    /\ fired' = << >>
    /\ arbitrage_opp' = << >>
    /\ UNCHANGED <<now, engine, params_, latest_snapshot_,
                   opportunity_callback_, update_callback_, created>>
    /\ UNCHANGED <<detector_vars, forwarding_vars, opportunities_mutex_, overlap,
                   pricing_vars>>

NextEngineThreads ==
    \/ AdvanceClock
    \/ get_active_opportunities_copy
    \/ get_active_opportunities_return
    \/ \E mispricing \in MispricingInputs(now), r \in RandomDraws :
            process_mispricing_validate(mispricing, r)
    \/ process_mispricing_push_back
    \/ \E snapshot \in Snapshots : update_market_data_store(snapshot)
    \/ update_market_data_erase

SpecEngineThreads == InitEngineThreads /\ [][NextEngineThreads]_vars

---------------------------------------------------------------------------
(* StatisticalMispricingDetector called from two threads: the writer calls *)
(* update_market_data and update_parameters, the reader detect_            *)
(* opportunities and get_active_opportunities.  opportunities_mutex_ is    *)
(* taken where the code takes it: in cleanup_expired_opportunities and in  *)
(* get_active_opportunities, around active_opportunities_ (which nothing   *)
(* fills)                                                                  *)

InitDetectorThreads ==
    /\ Constructed
    /\ engine = "none"
    /\ detector = "StatisticalMispricingDetector"

DetectorThreadsUnchanged ==
    UNCHANGED <<now, engine_vars, detector, detectors_, volatility_history_,
                arrivals, vol_surface, funding_rates_, updates,
                forwarding_vars>>

\* update_market_data enters its loop over the quotes; with no quote it goes
\* on to cleanup_expired_opportunities
Statistical_update_market_data_call(snapshot) ==
    /\ detector = "StatisticalMispricingDetector"
    /\ pc["writer"] = Idle
    /\ \A i \in Instruments : Len(price_history_[i]) < MaxChildObservations
    /\ pc' = [pc EXCEPT !["writer"] =
                IF snapshot = EmptySnapshot
                THEN [at |-> "lock"]
                ELSE [at |-> "update_price_history", snapshot |-> snapshot]]
    /\ overlap' = (overlap \/ (snapshot # EmptySnapshot
                                /\ pc["reader"].at = "detect"))
    /\ DetectorThreadsUnchanged
    /\ UNCHANGED <<detection_params_, price_history_, detected,
                   opportunities_mutex_, returned>>

\* the loop is done: update_price_history ran for every quote
Statistical_update_price_history ==
    /\ pc["writer"].at = "update_price_history"
    /\ price_history_' =
            [i \in Instruments |->
                IF i \in DOMAIN pc["writer"].snapshot
                THEN update_price_history(price_history_[i],
                                          pc["writer"].snapshot[i],
                                          detection_params_)
                ELSE price_history_[i]]
    /\ pc' = [pc EXCEPT !["writer"] = [at |-> "lock"]]
    /\ DetectorThreadsUnchanged
    /\ UNCHANGED <<detection_params_, detected, opportunities_mutex_,
                   overlap, returned>>

\* cleanup_expired_opportunities: std::lock_guard lock(opportunities_mutex_)
Statistical_cleanup_lock ==
    /\ pc["writer"].at = "lock"
    /\ opportunities_mutex_ = "free"
    /\ opportunities_mutex_' = "writer"
    /\ pc' = [pc EXCEPT !["writer"] = [at |-> "erase"]]
    /\ DetectorThreadsUnchanged
    /\ UNCHANGED <<detection_params_, price_history_, detected, overlap,
                   returned>>

\* the erase on the empty active list, and the end of the lock's scope
Statistical_cleanup_unlock ==
    /\ pc["writer"].at = "erase"
    /\ opportunities_mutex_' = "free"
    /\ pc' = [pc EXCEPT !["writer"] = Idle]
    /\ DetectorThreadsUnchanged
    /\ UNCHANGED <<detection_params_, price_history_, detected, overlap,
                   returned>>

\* update_parameters: params_ = params, which detect_opportunities reads
Statistical_update_parameters(params) ==
    /\ detector = "StatisticalMispricingDetector"
    /\ pc["writer"] = Idle
    /\ detection_params_' = params
    /\ overlap' = (overlap \/ pc["reader"].at = "detect")
    /\ DetectorThreadsUnchanged
    /\ UNCHANGED <<pc, price_history_, detected, opportunities_mutex_,
                   returned>>

\* detect_opportunities enters its loop over price_history_
Statistical_detect_opportunities_call ==
    /\ detector = "StatisticalMispricingDetector"
    /\ pc["reader"] = Idle
    /\ pc' = [pc EXCEPT !["reader"] = [at |-> "detect"]]
    /\ overlap' = (pc["writer"].at = "update_price_history")
    /\ detected' = << >>
    /\ returned' = << >>
    /\ DetectorThreadsUnchanged
    /\ UNCHANGED <<detection_params_, price_history_, opportunities_mutex_>>

\* the loop is done: what the histories give when no write overlapped the
\* loop, and otherwise (a data race) that or an indeterminate value, which
\* the model does not describe
Statistical_detect_opportunities_return ==
    /\ pc["reader"].at = "detect"
    /\ \E indeterminate \in (IF overlap THEN BOOLEAN ELSE {FALSE}) :
        /\ detected' =
                IF indeterminate THEN << >>
                ELSE StatisticalMispricingDetector_detect_opportunities(
                        price_history_, detection_params_, now)
        /\ returned' = <<[call |-> "detect_opportunities",
                          indeterminate |-> indeterminate,
                          value |-> detected']>>
    /\ pc' = [pc EXCEPT !["reader"] = Idle]
    /\ overlap' = FALSE
    /\ DetectorThreadsUnchanged
    /\ UNCHANGED <<detection_params_, price_history_, opportunities_mutex_>>

\* get_active_opportunities: std::lock_guard lock(opportunities_mutex_)
Statistical_get_active_opportunities_lock ==
    /\ detector = "StatisticalMispricingDetector"
    /\ pc["reader"] = Idle
    /\ opportunities_mutex_ = "free"
    /\ opportunities_mutex_' = "reader"
    /\ pc' = [pc EXCEPT !["reader"] = [at |-> "copy"]]
    /\ returned' = << >>
    /\ DetectorThreadsUnchanged
    /\ UNCHANGED <<detection_params_, price_history_, detected, overlap>>

\* the copy of the empty active list, and the end of the lock's scope
Statistical_get_active_opportunities_return ==
    /\ pc["reader"].at = "copy"
    /\ opportunities_mutex_ = "reader"
    /\ opportunities_mutex_' = "free"
    /\ pc' = [pc EXCEPT !["reader"] = Idle]
    /\ returned' = <<[call |-> "get_active_opportunities",
                      indeterminate |-> FALSE,
                      value |-> << >>]>>
    /\ DetectorThreadsUnchanged
    /\ UNCHANGED <<detection_params_, price_history_, detected, overlap>>

NextDetectorThreads ==
    \/ \E snapshot \in CompositeSnapshots :
            Statistical_update_market_data_call(snapshot)
    \/ Statistical_update_price_history
    \/ Statistical_cleanup_lock
    \/ Statistical_cleanup_unlock
    \/ \E params \in CompositeParameterChoices :
            Statistical_update_parameters(params)
    \/ Statistical_detect_opportunities_call
    \/ Statistical_detect_opportunities_return
    \/ Statistical_get_active_opportunities_lock
    \/ Statistical_get_active_opportunities_return

SpecDetectorThreads == InitDetectorThreads /\ [][NextDetectorThreads]_vars

---------------------------------------------------------------------------
(* The pricing models: VolatilitySurface and PerpetualSwapPricingModel.    *)
(* A volatility and a funding rate are in parts per million, a strike is   *)
(* a price in whole units, a time to expiry a number of quarters           *)

InitPricing ==
    /\ Constructed
    /\ engine = "none"
    /\ detector = "none"

Strikes == {100, 110}
Expiries == {1, 2}
Volatilities == {250000, 300000}
FundingRates == {-200, 300}
PerpetualInstruments == {"BTC-USD", "ETH-USD"}

\* interpolate_volatility looking up the pair (time_to_expiry, strike)
interpolate_volatility_swapped(surface, strike, time_to_expiry) ==
    LET key == <<time_to_expiry, strike>> IN
    IF key \in DOMAIN surface THEN surface[key] ELSE 200000

\* interpolate_volatility: the stored volatility of the point, the default
\* of 20% when the map has no such key
interpolate_volatility(surface, strike, time_to_expiry) ==
    LET key == <<strike, time_to_expiry>> IN
    IF key \in DOMAIN surface THEN surface[key] ELSE 200000

get_atm_volatility(surface, spot_price, time_to_expiry) ==
    interpolate_volatility(surface, spot_price, time_to_expiry)

\* m[key] = value on a std::map
MapAssign(m, key, value) ==
    [k \in DOMAIN m \cup {key} |-> IF k = key THEN value ELSE m[k]]

PricingUnchanged ==
    UNCHANGED <<now, engine_vars, detector_vars, thread_vars, forwarding_vars>>

VolatilitySurface_update_point(strike, time_to_expiry, volatility) ==
    /\ Len(updates) < MaxUpdates
    /\ vol_surface' = MapAssign(vol_surface, <<strike, time_to_expiry>>,
                                volatility)
    /\ updates' = Append(updates, [call |-> "update_point",
                                   key |-> <<strike, time_to_expiry>>,
                                   value |-> volatility])
    /\ returned' = << >>
    /\ PricingUnchanged
    /\ UNCHANGED funding_rates_

\* interpolate_volatility(strike, time_to_expiry) const; spot_price is the
\* spot price of the underlying at the call, which the function is not
\* given, and atm what get_atm_volatility answers for it
VolatilitySurface_interpolate_volatility(strike, time_to_expiry, spot_price) ==
    /\ returned' =
            <<[call |-> "interpolate_volatility",
               key |-> <<strike, time_to_expiry>>,
               spot_price |-> spot_price,
               atm |-> get_atm_volatility(vol_surface, spot_price,
                                          time_to_expiry),
               value |-> interpolate_volatility(vol_surface, strike,
                                                time_to_expiry)]>>
    /\ PricingUnchanged
    /\ UNCHANGED <<vol_surface, funding_rates_, updates>>

\* FundingRate, of which the model keeps the rate
FundingRate(instrument, rate) == [instrument_id |-> instrument, rate |-> rate]

PerpetualSwapPricingModel_update_funding_rate(instrument, rate) ==
    /\ Len(updates) < MaxUpdates
    /\ funding_rates_' = MapAssign(funding_rates_, instrument, rate)
    /\ updates' = Append(updates, [call |-> "update_funding_rate",
                                   key |-> instrument,
                                   value |-> rate.rate])
    /\ returned' = << >>
    /\ PricingUnchanged
    /\ UNCHANGED vol_surface

\* get_current_funding_rate with a default of zero
get_current_funding_rate_or_zero(rates, instrument) ==
    IF instrument \in DOMAIN rates THEN rates[instrument].rate ELSE 0

\* get_current_funding_rate: the stored rate, 0.0001 when none is stored
get_current_funding_rate(rates, instrument) ==
    IF instrument \in DOMAIN rates THEN rates[instrument].rate ELSE 100

PerpetualSwapPricingModel_get_current_funding_rate(instrument) ==
    /\ returned' =
            <<[call |-> "get_current_funding_rate",
               key |-> instrument,
               value |-> get_current_funding_rate(funding_rates_,
                                                  instrument)]>>
    /\ PricingUnchanged
    /\ UNCHANGED <<vol_surface, funding_rates_, updates>>

\* calculate_perpetual_fair_value: mid_price * (1.0 + funding_rate.rate), in
\* tenths (no function calls it)
calculate_perpetual_fair_value(spot_quote, funding_rate) ==
    (mid_price(spot_quote) * (PPM + funding_rate.rate)) \div PPM

\* the SyntheticPrice calculate_synthetic_price returns; its bid_price and
\* ask_price, 0.05 either side of theoretical_price, are finer than a tenth
\* and not kept
PerpetualSwapPricingModel_synthetic_price(target_instrument, component_instruments, market_data) ==
    [theoretical_price     |-> Price(100),
     confidence_score      |-> 850000,
     component_instruments |-> component_instruments,
     weights               |-> [k \in DOMAIN component_instruments |-> 1]]

PerpetualSwapPricingModel_calculate_synthetic_price(target_instrument, component_instruments, market_data) ==
    /\ returned' =
            <<[call |-> "calculate_synthetic_price",
               key |-> target_instrument,
               market_data |-> market_data,
               value |-> PerpetualSwapPricingModel_synthetic_price(
                            target_instrument, component_instruments,
                            market_data)]>>
    /\ PricingUnchanged
    /\ UNCHANGED <<vol_surface, funding_rates_, updates>>

NextPricing ==
    \/ \E strike \in Strikes, time_to_expiry \in Expiries,
          volatility \in Volatilities :
            VolatilitySurface_update_point(strike, time_to_expiry, volatility)
    \/ \E strike \in Strikes, time_to_expiry \in Expiries,
          spot_price \in Strikes :
            VolatilitySurface_interpolate_volatility(strike, time_to_expiry,
                                                     spot_price)
    \/ \E instrument \in PerpetualInstruments, rate \in FundingRates :
            PerpetualSwapPricingModel_update_funding_rate(
                instrument, FundingRate(instrument, rate))
    \/ \E instrument \in PerpetualInstruments :
            PerpetualSwapPricingModel_get_current_funding_rate(instrument)
    \/ \E target_instrument \in PerpetualInstruments,
          market_data \in {PairSnapshot, ThinSnapshot} :
            PerpetualSwapPricingModel_calculate_synthetic_price(
                target_instrument, <<"BTC-ETH">>, market_data)

SpecPricing == InitPricing /\ [][NextPricing]_vars

---------------------------------------------------------------------------
(* Properties of the engines *)

\* the opportunities a step puts on the active list
Entered ==
    SelectSeq(active_opportunities_', LAMBDA opp : opp.serial > created)

\* the values a step's handler passed to the callback of that name
Calls(name) ==
    LET calls == SelectSeq(fired', LAMBDA call : call.callback = name)
    IN [k \in DOMAIN calls |-> calls[k].opp]

Range(seq) == {seq[k] : k \in DOMAIN seq}

\* the status graph of the arbitrage state machine
StatusGraph ==
    {<<"IDENTIFIED", "VALIDATED">>, <<"VALIDATED", "EXECUTING">>,
     <<"EXECUTING", "COMPLETED">>, <<"IDENTIFIED", "FAILED">>,
     <<"IDENTIFIED", "EXPIRED">>, <<"VALIDATED", "EXPIRED">>,
     <<"EXECUTING", "EXPIRED">>}

\* C1: every change a handler of ArbitrageEngine makes to the status of an
\* opportunity it holds is an edge of the status graph, so no status returns
\* to an earlier one and COMPLETED, FAILED and EXPIRED are never left.
C1_StatusFollowsGraph ==
    [][engine = "ArbitrageEngine" =>
        \A before \in Range(active_opportunities_),
           after \in Range(active_opportunities_') :
            (before.serial = after.serial /\ before.status # after.status)
                => <<before.status, after.status>> \in StatusGraph]_vars

\* C2: when the opportunity process_mispricing builds fails a validation
\* check, its status becomes FAILED, it is not put on the active list and
\* the opportunity callback is not invoked for it.
C2_RejectedIsMarkedFailed ==
    \A opp \in Range(arbitrage_opp) :
        ~ArbitrageEngine_is_valid(opp, latest_snapshot_, params_, now)
        => /\ opp.status = "FAILED"
           /\ opp \notin Range(active_opportunities_)
           /\ \A call \in Range(fired) : call.opp # opp

\* C3: an opportunity an engine marks VALIDATED and puts on its active list
\* passes the four validation checks (liquidity, risk limits, timing,
\* feasibility) against the snapshot, the parameters and the clock of the
\* handler that marks it.
C3_ValidatedPassesAllChecks ==
    [][/\ \A mispricing \in MispricingInputs(now), r \in RandomDraws :
            ArbitrageEngine_process_mispricing(mispricing, r) =>
                \A opp \in Range(Entered) :
                    opp.status = "VALIDATED" =>
                        ArbitrageEngine_is_valid(opp, latest_snapshot_,
                                                 params_, now)
       /\ \A snapshot \in Snapshots :
            TriangularArbitrageEngine_update_market_data(snapshot) =>
                \A opp \in Range(Entered) :
                    opp.status = "VALIDATED" =>
                        ArbitrageEngine_is_valid(opp, snapshot, params_, now)
      ]_vars

\* C4: an opportunity enters an engine's active list only validated: what
\* update_market_data or process_mispricing puts on the list never has
\* status IDENTIFIED.
C4_OnlyValidatedEnter ==
    [][\A opp \in Range(Entered) : opp.status # "IDENTIFIED"]_vars

\* C5: a handler run while an opportunity callback is registered invokes it
\* once, in order, for each opportunity it validates and puts on the active
\* list, passing the opportunity with status VALIDATED; and no handler
\* invokes it for anything else (an opportunity already on the list, or one
\* that did not enter it).
C5_CallbackOncePerValidated ==
    [][LET passed == SelectSeq(Entered,
                               LAMBDA opp : opp.status = "VALIDATED")
       IN /\ opportunity_callback_ =>
                Calls("opportunity_callback_") = passed
          /\ \A opp \in Range(Calls("opportunity_callback_")) :
                opp \in Range(passed)]_vars

C5_Witness ==
    \E call \in Range(fired) :
        /\ call.callback = "opportunity_callback_"
        /\ call.opp.status = "VALIDATED"
        /\ call.opp \in Range(active_opportunities_)

\* C6: when update_market_data runs, with both of the engine's callbacks
\* registered, while an active opportunity's expiry_time has passed,
\* exactly one callback fires for that opportunity and it carries the
\* opportunity with status EXPIRED.
C6_SweepExpiresAndNotifies ==
    [][\A snapshot \in Snapshots :
        (/\ ArbitrageEngine_update_market_data(snapshot)
         /\ opportunity_callback_
         /\ update_callback_) =>
            \A opp \in Range(active_opportunities_) :
                now >= opp.expiry_time =>
                    /\ Cardinality({k \in DOMAIN fired' :
                            fired'[k].opp.serial = opp.serial}) = 1
                    /\ \A call \in Range(fired') :
                            call.opp.serial = opp.serial =>
                                call.opp.status = "EXPIRED"]_vars

\* C7: ArbitrageEngine's active list holds no opportunity in a terminal
\* status (COMPLETED, FAILED, EXPIRED).
C7_NoTerminalStatusHeld ==
    engine = "ArbitrageEngine" =>
        \A opp \in Range(active_opportunities_) :
            opp.status \notin {"COMPLETED", "FAILED", "EXPIRED"}

\* C8: no two opportunities an engine created carry the same
\* opportunity_id; stated of the opportunities on the active list, which
\* are among those created.
C8_OpportunityIdsUnique ==
    \A i, j \in DOMAIN active_opportunities_ :
        i # j => active_opportunities_[i].opportunity_id
                    # active_opportunities_[j].opportunity_id

\* C19: the first leg ArbitrageEngine builds from a mispricing is on the
\* target instrument with weight +1, and its side is BID when
\* market_price < theoretical_price and ASK otherwise.
C19_PrimaryLeg ==
    \A opp \in Range(arbitrage_opp) :
        LET mispricing == opp.mispricing_source
            leg == opp.legs[1]
        IN /\ leg.instrument_id = mispricing.target_instrument
           /\ leg.weight = 1
           /\ leg.side =
                    IF mispricing.market_price < mispricing.theoretical_price
                    THEN "BID" ELSE "ASK"

\* process_mispricing built an opportunity from a mispricing whose two
\* prices are equal
C19_Witness ==
    \E opp \in Range(arbitrage_opp) :
        /\ opp.mispricing_source.market_price
                = opp.mispricing_source.theoretical_price
        /\ opp.legs[1].side = "ASK"

\* C20: the opportunity ArbitrageEngine builds has one hedge leg per
\* component instrument of the mispricing, 1 + Len(component_instruments)
\* legs in all, also when the weights list is the shorter one.
C20_OneHedgePerComponent ==
    \A opp \in Range(arbitrage_opp) :
        Len(opp.legs) = 1 + Len(opp.mispricing_source.component_instruments)

\* what an engine has constructed: the opportunities the handler just run
\* built, and those on the active list
Constructions == Range(arbitrage_opp) \cup Range(active_opportunities_)

\* C21: each hedge leg ArbitrageEngine builds for a component with weight w
\* has weight -w and size |w| times the primary leg's size, and when w is
\* positive its side is the opposite of the primary leg's side, whether the
\* primary leg is a BID or an ASK
C21_HedgeLegMirrorsComponent ==
    \A opp \in Range(arbitrage_opp) :
        opp.type = "STATISTICAL_ARBITRAGE" =>
            \A k \in 2 .. Len(opp.legs) :
                LET w == opp.mispricing_source.weights[k - 1]
                    leg == opp.legs[k]
                IN /\ leg.weight = -w
                   /\ leg.size = Abs(w) * opp.legs[1].size
                   /\ w > 0 => leg.side # opp.legs[1].side

\* C22: every leg of every opportunity an engine constructs has size > 0,
\* whatever the mispricing, a component weight of zero included
C22_LegSizesPositive ==
    \A opp \in Constructions :
        \A k \in DOMAIN opp.legs : opp.legs[k].size > 0

\* C23: on every construction path the opportunity's total_cost equals the
\* sum over its legs of size * entry_price (total_cost is in whole units, the
\* sum in tenths)
C23_TotalCostIsSumOverLegs ==
    \A opp \in Constructions :
        opp.total_cost * PriceScale = total_position_value(opp.legs)

\* C24: an opportunity with a leg whose instrument has no quote in the
\* engine's latest snapshot is skipped: ArbitrageEngine does not mark it
\* VALIDATED and does not add it to the active list
C24_UnquotedLegIsSkipped ==
    \A opp \in Range(arbitrage_opp) :
        /\ opp.type = "STATISTICAL_ARBITRAGE"
        /\ \E k \in DOMAIN opp.legs :
                opp.legs[k].instrument_id \notin DOMAIN latest_snapshot_
        => /\ opp.status # "VALIDATED"
           /\ opp \notin Range(active_opportunities_)

\* C25: the active list is read and written only under an engine-level
\* mutex: a get_active_opportunities call running concurrently with
\* process_mispricing or update_market_data never overlaps a modification of
\* the list, and returns a copy of a consistent list
C25_ActiveListUnderMutex ==
    /\ ~(pc["reader"].at = "copy" /\ EngineModifying)
    /\ \A result \in Range(returned) :
            result.call = "get_active_opportunities" =>
                ~result.indeterminate

\* C31: timing validation accepts an opportunity exactly when
\* now < expiry_time and expiry_time - now >= 5 minutes: a remaining time of
\* exactly 5 minutes passes and any remaining time below 5 minutes fails
C31_TimingAcceptsFromFiveMinutes ==
    \A opp \in Range(arbitrage_opp) :
        opp.type = "STATISTICAL_ARBITRAGE" =>
            LET in_time == /\ now < opp.expiry_time
                           /\ opp.expiry_time - now >= Minutes(5)
            IN /\ validate_timing(opp, now) <=> in_time
               /\ opp.status = "VALIDATED" => in_time

\* process_mispricing validated an opportunity with exactly 5 minutes left
C31_Witness ==
    \E opp \in Range(arbitrage_opp) :
        /\ opp.type = "STATISTICAL_ARBITRAGE"
        /\ opp.expiry_time - now = Minutes(5)
        /\ opp.status = "VALIDATED"

\* C32: the market impact ArbitrageEngine computes for an opportunity is
\* 0.1 basis point (0.00001, 10 parts per million) times the total leg
\* volume divided by 1000
C32_MarketImpactTenthOfBasisPoint ==
    \A opp \in Range(arbitrage_opp) :
        opp.type = "CROSS_EXCHANGE_SYNTHETIC_REPLICATION" =>
            opp.market_impact * 1000 = 10 * total_volume(opp.legs)

\* C33: every opportunity ArbitrageEngine produces, by identify_opportunities
\* or by process_mispricing, carries expected_shortfall = 1.3 * value_at_risk
\* (to the whole unit the model keeps money in)
C33_ShortfallIsVarTimesOnePointThree ==
    \A opp \in Range(arbitrage_opp) :
        /\ 10 * opp.expected_shortfall <= 13 * opp.value_at_risk
        /\ 13 * opp.value_at_risk < 10 * (opp.expected_shortfall + 1)

\* C36: with the default max_correlation_risk of 0.3, an opportunity
\* returned by identify_opportunities never passes validate_opportunity: its
\* two legs give correlation_risk = 0.6, which exceeds the limit
C36_IdentifiedFailsCorrelationLimit ==
    \A opp \in Range(arbitrage_opp) :
        /\ opp.type = "CROSS_EXCHANGE_SYNTHETIC_REPLICATION"
        /\ params_.max_correlation_risk
                = ArbitrageParameters.max_correlation_risk
        => /\ opp.correlation_risk * 10 = 6 * PPM
           /\ opp.correlation_risk > params_.max_correlation_risk
           /\ ~validate_risk_limits(opp, params_)
           /\ ArbitrageEngine_validate_opportunity(
                    opp, latest_snapshot_, params_, now).status # "VALIDATED"

\* identify_opportunities returned an opportunity under the default
\* parameters, on a snapshot deep enough for its two legs
C36_Witness ==
    \E opp \in Range(arbitrage_opp) :
        /\ opp.type = "CROSS_EXCHANGE_SYNTHETIC_REPLICATION"
        /\ params_ = ArbitrageParameters
        /\ validate_liquidity(opp, latest_snapshot_)

\* a step on which identify_opportunities returns
C37_Step ==
    /\ returned' # returned
    /\ returned' # << >>
    /\ returned'[1].call = "identify_opportunities"
    => LET value == returned'[1].value
           quotes == SelectSeq(InstrumentOrder,
                               LAMBDA i : i \in DOMAIN latest_snapshot_)
       IN /\ Len(value) =
                IF Cardinality(DOMAIN latest_snapshot_) >= 2 THEN 1 ELSE 0
          /\ \A opp \in Range(value) :
                /\ opp.status = "IDENTIFIED"
                /\ Len(opp.legs) = 2
                /\ opp.legs[1].instrument_id = quotes[1]
                /\ opp.legs[1].weight = 1
                /\ opp.legs[1].side = "BID"
                /\ opp.legs[2].instrument_id = quotes[2]
                /\ opp.legs[2].weight = -1
                /\ opp.legs[2].side = "ASK"
          /\ active_opportunities_' = active_opportunities_

\* C37: identify_opportunities returns exactly one opportunity when the
\* latest snapshot holds at least two quotes and none otherwise; the
\* opportunity has status IDENTIFIED and exactly two legs (weights +1 and -1,
\* sides BID and ASK) on the first two instruments of the snapshot, and the
\* call leaves the active list unchanged
C37_IdentifyReturnsOneOnTwoQuotes == [][C37_Step]_vars

\* identify_opportunities returned one opportunity on a snapshot of exactly
\* two quotes
C37_Witness ==
    /\ Cardinality(DOMAIN latest_snapshot_) = 2
    /\ arbitrage_opp # << >>
    /\ returned = <<[call |-> "identify_opportunities",
                     value |-> arbitrage_opp]>>

\* C34: update_opportunity_status(id, s) on an active opportunity whose
\* expiry_time has passed leaves its status EXPIRED whatever s was requested,
\* and fires the update callback exactly once; for an id not on the active
\* list it changes nothing and fires no callback
C34_ExpiredStaysExpired ==
    [][\A id \in {active_opportunities_[k].opportunity_id :
                        k \in DOMAIN active_opportunities_} \cup {UnknownId},
          status \in ArbitrageStatus :
        ArbitrageEngine_update_opportunity_status(id, status) =>
            LET it == FindById(active_opportunities_, id) IN
            IF it = 0
            THEN /\ active_opportunities_' = active_opportunities_
                 /\ fired' = << >>
            ELSE now >= active_opportunities_[it].expiry_time =>
                    /\ active_opportunities_'[it].status = "EXPIRED"
                    /\ \A k \in DOMAIN active_opportunities_ :
                            k # it => active_opportunities_'[k]
                                        = active_opportunities_[k]
                    /\ update_callback_ =>
                            Calls("update_callback_")
                                = <<active_opportunities_'[it]>>
                    /\ Len(fired') <= 1]_vars

\* update_opportunity_status ran, with the update callback registered, on an
\* active opportunity past its expiry_time
C34_Witness ==
    \E call \in Range(fired) :
        /\ call.callback = "update_callback_"
        /\ now >= call.opp.expiry_time
        /\ call.opp.status = "EXPIRED"
        /\ call.opp \in Range(active_opportunities_)

\* the registered triangles with at least three instruments
Triangles ==
    SelectSeq(currency_triangles_, LAMBDA triangle : Len(triangle[2]) >= 3)

\* a step of a TriangularArbitrageEngine shrinks the active list only in
\* clear_opportunities: every other step keeps what is on it, expired or not
C38_Keeps ==
    engine = "TriangularArbitrageEngine" =>
        \/ clear_opportunities
        \/ /\ Len(active_opportunities_') >= Len(active_opportunities_)
           /\ \A k \in DOMAIN active_opportunities_ :
                active_opportunities_'[k] = active_opportunities_[k]

\* update_market_data, run in this state on any snapshot, appends that many
\* opportunities, each VALIDATED
C38_Appends(appended) ==
    (engine = "TriangularArbitrageEngine" /\ created < MaxTriangularCreated) =>
        \A snapshot \in Snapshots :
            ENABLED (/\ TriangularArbitrageEngine_update_market_data_within(
                            snapshot, MaxTriangularCreated)
                     /\ Len(active_opportunities_')
                            = Len(active_opportunities_) + appended
                     /\ \A k \in DOMAIN active_opportunities_' :
                            k > Len(active_opportunities_) =>
                                active_opportunities_'[k].status = "VALIDATED")

\* C38, as stated: TriangularArbitrageEngine's active list never shrinks
\* except through clear_opportunities: each update_market_data appends one
\* VALIDATED opportunity per registered triangle with at least three
\* instruments, whatever the snapshot contains, and no operation removes
\* opportunities whose expiry_time has passed
C38_AppendsOnePerTriangle ==
    [][C38_Keeps]_vars /\ []C38_Appends(Len(Triangles))

\* C38, amended: as stated, but update_market_data appends one VALIDATED
\* opportunity per such triangle when the triangular profit of 1.5% exceeds
\* min_profit_threshold, and none otherwise
C38_AppendsOnePerProfitableTriangle ==
    [][C38_Keeps]_vars
    /\ []C38_Appends(IF calculate_triangular_profit
                            > params_.min_profit_threshold
                     THEN Len(Triangles) ELSE 0)

\* update_market_data appended one opportunity per triangle after an
\* opportunity whose expiry_time has passed, which is still on the list
C38_Witness ==
    /\ engine = "TriangularArbitrageEngine"
    /\ Len(active_opportunities_) = 1 + Len(Triangles)
    /\ now >= active_opportunities_[1].expiry_time
    /\ \A k \in 2 .. Len(active_opportunities_) :
            active_opportunities_[k].status = "VALIDATED"

---------------------------------------------------------------------------
(* Properties of the detectors *)

\* C9: every mispricing detect_opportunities returns passes the
\* significance gate of the detector's current DetectionParameters:
\* |deviation_percentage| > min_deviation_threshold, |z_score| > min_z_score
\* and confidence_level > min_confidence_level.
C9_ReturnedAreSignificant ==
    \A opp \in Range(detected) :
        is_significant_deviation(opp.deviation_percentage, opp.z_score,
                                 opp.confidence_level, detection_params_)

\* C10: every mispricing detect_opportunities returns has expiry_time =
\* detection_time + max_opportunity_duration, hence expiry_time >
\* detection_time.
C10_ExpiryIsDetectionPlusDuration ==
    \A opp \in Range(detected) :
        /\ opp.expiry_time
            = opp.detection_time + detection_params_.max_opportunity_duration
        /\ opp.expiry_time > opp.detection_time

\* the history a history-based detector keeps for an instrument
History(instrument) ==
    IF detector = "StatisticalMispricingDetector"
    THEN price_history_[instrument]
    ELSE volatility_history_[instrument]

\* C12: a history-based detector (StatisticalMispricingDetector,
\* VolatilityArbitrageDetector) returns no mispricing for an instrument
\* of which it holds fewer than min_observation_window observations.
C12_NoneBelowObservationWindow ==
    detector \in {"StatisticalMispricingDetector",
                  "VolatilityArbitrageDetector"} =>
        \A opp \in Range(detected) :
            Len(History(opp.target_instrument))
                >= detection_params_.min_observation_window

\* C13: TriangularArbitrageDetector returns a mispricing for a triangle
\* only when the triangle's computed profit exceeds the current
\* min_deviation_threshold.
C13_TriangleEmittedOnlyIfProfitable ==
    detector = "TriangularArbitrageDetector" =>
        \A opp \in Range(detected) :
            is_profitable_triangle(
                TriangularArbitrageDetector_calculate_triangular_profit,
                detection_params_)

\* |deviation| values on and around the boundaries of the severity mapping
DeviationSamples ==
    {0, 8000, 10000, 10001, 15000, 20000, 20001, 50000, 50001,
     -10001, -20000, -50001}

SeverityRank(severity) ==
    CASE severity = "LOW" -> 0
      [] severity = "MEDIUM" -> 1
      [] severity = "HIGH" -> 2
      [] severity = "CRITICAL" -> 3

\* C14: the severity of every returned mispricing is the mapping of its
\* |deviation_percentage| (> 5% CRITICAL, > 2% HIGH, > 1% MEDIUM, else
\* LOW, boundaries strict), and the mapping never decreases as
\* |deviation| grows.
C14_SeverityIsMappingOfDeviation ==
    /\ \A opp \in Range(detected) :
            opp.severity = assess_severity(opp.deviation_percentage)
    /\ \A opp \in Range(detected), d \in DeviationSamples :
            Abs(opp.deviation_percentage) <= Abs(d) =>
                SeverityRank(opp.severity)
                    <= SeverityRank(assess_severity(d))

\* a mispricing whose deviation is exactly on the 2% boundary was returned
C14_Witness ==
    \E opp \in Range(detected) :
        /\ opp.deviation_percentage = 20000
        /\ opp.severity = "MEDIUM"

\* C15: every quote history of StatisticalMispricingDetector holds at most
\* 2 * min_observation_window entries, for the current
\* min_observation_window.
C15_HistoryWithinTwiceWindow ==
    detector = "StatisticalMispricingDetector" =>
        \A i \in Instruments :
            Len(price_history_[i])
                <= 2 * detection_params_.min_observation_window

\* the last n elements of a sequence, all of it when it is shorter
LastN(seq, n) ==
    IF Len(seq) <= n THEN seq ELSE SubSeq(seq, Len(seq) - n + 1, Len(seq))

\* C16: every mid-price history of VolatilityArbitrageDetector holds at
\* most 100 entries, and they are the most recent mid prices pushed for
\* the instrument, in arrival order.
C16_HistoryIsLastHundredMids ==
    detector = "VolatilityArbitrageDetector" =>
        \A i \in Instruments :
            /\ Len(volatility_history_[i]) <= 100
            /\ volatility_history_[i] = LastN(arrivals[i], 100)

\* more than 100 mid prices of an instrument arrived: the oldest was evicted
C16_Witness ==
    /\ Len(arrivals["BTC-USD"]) > 100
    /\ Len(volatility_history_["BTC-USD"]) = 100
    /\ volatility_history_["BTC-USD"][1] # arrivals["BTC-USD"][1]

\* C17: CompositeMispricingDetector::detect_opportunities returns its
\* children's results, all of them and nothing else, ordered by
\* expected_profit descending.
C17_CompositeSortedByProfit ==
    detector = "CompositeMispricingDetector" =>
        /\ \A k \in 1..(Len(detected) - 1) :
                detected[k].expected_profit >= detected[k + 1].expected_profit
        /\ detected # << >> =>
                LET all == all_opportunities(detectors_, now, 1) IN
                /\ Len(detected) = Len(all)
                /\ Range(detected) = Range(all)

\* the children returned a lower profit before a higher one, and the
\* composite returned them the other way round
C17_Witness ==
    /\ detector = "CompositeMispricingDetector"
    /\ Len(detected) >= 2
    /\ detected[1].expected_profit > detected[Len(detected)].expected_profit
    /\ detected[1] = all_opportunities(detectors_, now, 1)[Len(detected)]

\* C18: CompositeMispricingDetector::detect_opportunities returns at most
\* one mispricing per (type, target_instrument) pair.
C18_CompositeOnePerTypeAndTarget ==
    detector = "CompositeMispricingDetector" =>
        \A i, j \in DOMAIN detected :
            (/\ detected[i].type = detected[j].type
             /\ detected[i].target_instrument = detected[j].target_instrument)
            => i = j

\* C26: the detector's history queues are accessed only under its mutex:
\* update_market_data, inside its writes to price_history_, and
\* detect_opportunities, inside its reads of it, run on different threads,
\* are never inside these accesses at the same time
C26_HistoryUnderMutex ==
    ~(/\ pc["writer"].at = "update_price_history"
      /\ pc["reader"].at = "detect")

\* the value the last call of the kind stored under the key, in a sequence
\* of one element, or the empty sequence when no call stored one
LastStored(kind, key) ==
    LET stores == SelectSeq(updates,
                            LAMBDA u : u.call = kind /\ u.key = key)
    IN IF stores = << >> THEN << >> ELSE <<stores[Len(stores)].value>>

\* C27: interpolation is exact at stored points: after any sequence of
\* update_point calls, interpolate_volatility(k, t) returns the volatility
\* most recently stored for (k, t), and calling it does not change the
\* surface, which holds the points stored and nothing else
C27_InterpolationExactAtStoredPoints ==
    /\ \A key \in Strikes \X Expiries :
            IF key \in DOMAIN vol_surface
            THEN LastStored("update_point", key) = <<vol_surface[key]>>
            ELSE LastStored("update_point", key) = << >>
    /\ \A result \in Range(returned) :
            /\ result.call = "interpolate_volatility"
            /\ LastStored("update_point", result.key) # << >>
            => <<result.value>> = LastStored("update_point", result.key)

\* interpolate_volatility was called at a point stored twice, with different
\* volatilities, and returned the second
C27_Witness ==
    \E result \in Range(returned) :
        /\ result.call = "interpolate_volatility"
        /\ Len(updates) = 2
        /\ updates[1].call = "update_point" /\ updates[1].key = result.key
        /\ updates[2].call = "update_point" /\ updates[2].key = result.key
        /\ updates[1].value # updates[2].value
        /\ result.value = updates[2].value

\* C28: for a (strike, time_to_expiry) with no stored point,
\* interpolate_volatility falls back to the ATM volatility for that
\* time_to_expiry: the value stored for the at-the-money strike at that
\* expiry when one exists
C28_FallsBackToAtmVolatility ==
    \A result \in Range(returned) :
        /\ result.call = "interpolate_volatility"
        /\ LastStored("update_point", result.key) = << >>
        => /\ result.value = result.atm
           /\ LET atm_key == <<result.spot_price, result.key[2]>> IN
              LastStored("update_point", atm_key) # << >> =>
                <<result.value>> = LastStored("update_point", atm_key)

\* C29: get_current_funding_rate(i) returns the rate of the most recent
\* update_funding_rate(i, r) for that instrument, and the default of 1 bp
\* when no rate was ever stored for i; updates for other instruments do not
\* affect it
C29_FundingRateStoredOrDefault ==
    \A result \in Range(returned) :
        result.call = "get_current_funding_rate" =>
            IF LastStored("update_funding_rate", result.key) = << >>
            THEN result.value * 10000 = PPM
            ELSE <<result.value>> =
                    LastStored("update_funding_rate", result.key)

\* get_current_funding_rate(i) was called after two updates, the first of
\* them for i and the second for i at another rate or for another instrument
C29_Witness ==
    \E result \in Range(returned) :
        /\ result.call = "get_current_funding_rate"
        /\ Len(updates) = 2
        /\ updates[1].call = "update_funding_rate"
        /\ updates[2].call = "update_funding_rate"
        /\ updates[1].key = result.key
        /\ updates[1].value # updates[2].value
        /\ result.value # 100

\* C30: the theoretical price calculate_synthetic_price returns equals
\* spot_mid * (1 + funding_rate), spot_mid from the snapshot's quote of the
\* target and funding_rate the model's current rate for it
C30_TheoreticalIsMidTimesFunding ==
    \A result \in Range(returned) :
        /\ result.call = "calculate_synthetic_price"
        /\ result.key \in DOMAIN result.market_data
        => result.value.theoretical_price * PPM =
                mid_price(result.market_data[result.key])
                    * (PPM + get_current_funding_rate(funding_rates_,
                                                      result.key))

\* how often a value occurs in a sequence
Occurrences(seq, value) == Cardinality({k \in DOMAIN seq : seq[k] = value})

\* the calls of that name on the children of detectors_, one each, in the
\* order of insertion
ReachesEveryChild(call) ==
    /\ Len(forwarded') = Len(detectors_)
    /\ \A k \in DOMAIN detectors_ :
            forwarded'[k] = [child |-> detectors_[k].kind, call |-> call]

\* a step of the composite, for the child at position k after it: its
\* parameters and callbacks are those of the update_parameters,
\* set_detection_callback or set_expiry_callback call the step made, and
\* otherwise those it had, which for a child the step added are its own
C39_ChildKeepsItsOwn(k) ==
    LET child == detectors_'[k]
        before == ChildOfKind(child.kind)
        own == IF before # << >> THEN before[1]
               ELSE [params_ |-> DetectionParameters,
                     detection_callback_ |-> FALSE,
                     expiry_callback_ |-> FALSE]
    IN /\ child.params_ =
            IF \E params \in CompositeParameterChoices :
                    CompositeMispricingDetector_update_parameters(params)
            THEN detection_params_' ELSE own.params_
       /\ child.detection_callback_ =
            IF \E callback \in BOOLEAN :
                    CompositeMispricingDetector_set_detection_callback(callback)
            THEN detection_callback_' ELSE own.detection_callback_
       /\ child.expiry_callback_ =
            IF \E callback \in BOOLEAN :
                    CompositeMispricingDetector_set_expiry_callback(callback)
            THEN expiry_callback_' ELSE own.expiry_callback_

C39_Step ==
    detector = "CompositeMispricingDetector" =>
        /\ \A k \in DOMAIN detectors_' : C39_ChildKeepsItsOwn(k)
        /\ (\E params \in CompositeParameterChoices :
                CompositeMispricingDetector_update_parameters(params))
                => ReachesEveryChild("update_parameters")
        /\ (\E callback \in BOOLEAN :
                CompositeMispricingDetector_set_detection_callback(callback))
                => ReachesEveryChild("set_detection_callback")
        /\ (\E callback \in BOOLEAN :
                CompositeMispricingDetector_set_expiry_callback(callback))
                => ReachesEveryChild("set_expiry_callback")
        /\ \A snapshot \in CompositeSnapshots :
            CompositeMispricingDetector_update_market_data(snapshot) =>
                /\ ReachesEveryChild("update_market_data")
                /\ \A i \in DOMAIN snapshot :
                    /\ ChildOfKind("StatisticalMispricingDetector") # << >>
                        => Len(price_history_'[i])
                                = Len(price_history_[i]) + 1
                    /\ ChildOfKind("VolatilityArbitrageDetector") # << >>
                        => arrivals'[i]
                                = Append(arrivals[i], mid_price(snapshot[i]))
        /\ CompositeMispricingDetector_detect_opportunities =>
                /\ ReachesEveryChild("detect_opportunities")
                /\ Len(detected') = Len(all_opportunities(detectors_, now, 1))
                /\ \A k \in DOMAIN detected' :
                        Occurrences(detected', detected'[k])
                            = Occurrences(all_opportunities(detectors_, now, 1),
                                          detected'[k])

\* C39: CompositeMispricingDetector forwards update_parameters,
\* set_detection_callback and set_expiry_callback only to the children
\* present at the time of the call: a detector added afterwards keeps its
\* own parameters and callbacks until the next such call; update_market_data
\* and detect_opportunities reach every current child, in insertion order
C39_ForwardsToChildrenPresent == [][C39_Step]_vars

\* update_market_data has just reached two children: the first holds the
\* parameters and the detection callback the composite was given, the
\* second, added after those calls, holds its own
C39_Witness ==
    /\ detector = "CompositeMispricingDetector"
    /\ Len(detectors_) = 2
    /\ Len(forwarded) = 2
    /\ forwarded[2] = [child |-> detectors_[2].kind,
                       call |-> "update_market_data"]
    /\ detection_params_ # DetectionParameters
    /\ detection_callback_
    /\ detectors_[1].params_ = detection_params_
    /\ detectors_[1].detection_callback_
    /\ detectors_[2].params_ = DetectionParameters
    /\ ~detectors_[2].detection_callback_

\* C35: a MispricingOpportunity that detect_opportunities of the Statistical,
\* Triangular, Volatility or Composite detector returned, passed as it is to
\* ArbitrageEngine::process_mispricing, never enters the active set and
\* never fires the opportunity callback: its expiry_time is left at the
\* clock epoch, so that the opportunity built from it fails validate_timing
C35_DetectedNeverBecomesActive ==
    /\ \A k \in DOMAIN detected : detected[k].expiry_time = 0
    /\ engine = "ArbitrageEngine" =>
        /\ active_opportunities_ = << >>
        /\ fired = << >>
        /\ \A k \in DOMAIN arbitrage_opp :
            /\ arbitrage_opp[k].expiry_time = 0
            /\ ~validate_timing(arbitrage_opp[k], now)
            /\ arbitrage_opp[k].status # "VALIDATED"

\* process_mispricing has just turned down an opportunity built from what the
\* detector returned, with a snapshot stored and a callback registered
C35_Witness ==
    /\ engine = "ArbitrageEngine"
    /\ opportunity_callback_
    /\ latest_snapshot_ = DeepSnapshot
    /\ arbitrage_opp # << >>
    /\ arbitrage_opp[1].mispricing_source \in Range(detected)
    /\ active_opportunities_ = << >>

====
